---- MODULE Spec2Model ----
(***************************************************************************)
(* AWQL parser (rvflash/awql-parser): the lexical scanner, the recursive-  *)
(* descent parser with its one-token pushback, the statement model and the *)
(* SELECT formatter, as a state machine.                                   *)
(*                                                                         *)
(* A rune is a string of length one; a text and a token literal are        *)
(* sequences of runes.  The parser runs one grammar step per action.       *)
(***************************************************************************)
EXTENDS Integers, Sequences, FiniteSets, TLC

(***************************************************************************)
(* Runes                                                                   *)
(***************************************************************************)

\* eof represents a marker rune for the end of the reader: rune(0).
eof == ""

LowerLetters ==
    <<"a","b","c","d","e","f","g","h","i","j","k","l","m",
      "n","o","p","q","r","s","t","u","v","w","x","y","z">>

UpperLetters ==
    <<"A","B","C","D","E","F","G","H","I","J","K","L","M",
      "N","O","P","Q","R","S","T","U","V","W","X","Y","Z">>

DigitRunes == <<"0","1","2","3","4","5","6","7","8","9">>

Range(f) == { f[i] : i \in DOMAIN f }

Digits == Range(DigitRunes)

Letters == Range(LowerLetters) \cup Range(UpperLetters)

Whitespace == {" ", "\t", "\n"}

Quotes == {"\"", "'"}

isDigit(r) == r \in Digits

isLetter(r) == r \in Letters

isLiteral(r) == r = "_" \/ isDigit(r) \/ isLetter(r)

isValueLiteral(r) == r = "." \/ isLiteral(r)

isQuote(r) == r \in Quotes

isWhitespace(r) == r \in Whitespace

LiteralRunes == {"_"} \cup Digits \cup Letters

\* strings.ToUpper on one rune.
ToUpperRune(r) ==
    IF r \in Range(LowerLetters)
    THEN UpperLetters[CHOOSE i \in DOMAIN LowerLetters : LowerLetters[i] = r]
    ELSE r

ToUpper(s) == [i \in DOMAIN s |-> ToUpperRune(s[i])]

\* The Go string made of the runes of s.
RECURSIVE Str(_)
Str(s) == IF s = <<>> THEN "" ELSE s[1] \o Str(Tail(s))

\* The value of a digit rune, and strconv.Atoi on a run of digits.
DigitVal(r) == (CHOOSE i \in DOMAIN DigitRunes : DigitRunes[i] = r) - 1

RECURSIVE AtoiAcc(_, _)
AtoiAcc(s, acc) ==
    IF s = <<>> THEN acc ELSE AtoiAcc(Tail(s), 10 * acc + DigitVal(s[1]))

Atoi(s) == AtoiAcc(s, 0)

\* strconv.Atoi succeeds on s: an optional sign and digits, in the int range.
MaxIntDigits == 18

AtoiOk(s) ==
    /\ s # <<>>
    /\ Len(s) <= MaxIntDigits
    /\ \A i \in DOMAIN s : isDigit(s[i])

(***************************************************************************)
(* Scanner                                                                 *)
(***************************************************************************)

\* read: the rune at pos, eof once the reader is exhausted.
read(src, pos) == IF pos <= Len(src) THEN src[pos] ELSE eof

\* The reader position after a read at pos: a failed read consumes nothing.
advance(src, pos) == IF pos <= Len(src) THEN pos + 1 ELSE pos

\* The end of the run of runes of the set `runes` that starts at pos: the loops
\* "read; if eof break; if not in the class unread and break; else write".
RECURSIVE RunEnd(_, _, _)
RunEnd(src, pos, runes) ==
    IF pos <= Len(src) /\ src[pos] \in runes
    THEN RunEnd(src, pos + 1, runes)
    ELSE pos

Tok(t, l, pos) == [t |-> t, l |-> l, pos |-> pos]

\* scanWhitespace consumes the current rune and all contiguous whitespace.
scanWhitespace(src, pos) ==
    LET e == RunEnd(src, pos, Whitespace)
    IN  Tok("WHITE_SPACE", SubSeq(src, pos, e - 1), e)

Keywords ==
    {"DESCRIBE", "SELECT", "CREATE", "REPLACE", "VIEW", "SHOW", "FULL",
     "TABLES", "DISTINCT", "AS", "FROM", "WHERE", "LIKE", "WITH", "AND", "OR",
     "IN", "NOT_IN", "STARTS_WITH", "STARTS_WITH_IGNORE_CASE", "CONTAINS",
     "CONTAINS_IGNORE_CASE", "DOES_NOT_CONTAIN", "DOES_NOT_CONTAIN_IGNORE_CASE",
     "DURING", "GROUP", "ORDER", "BY", "ASC", "DESC", "LIMIT"}

\* A variant of scanIdentifier that tells a reserved word by the text as it is
\* written.
scanIdentifierExact(src, pos) ==
    LET e   == RunEnd(src, pos + 1, LiteralRunes)
        buf == SubSeq(src, pos, e - 1)
    IN  Tok(IF Str(buf) \in Keywords THEN Str(buf) ELSE "IDENTIFIER", buf, e)

\* scanIdentifier consumes the current rune and all contiguous literal runes;
\* a reserved word is returned as its own token, with the text as written.
scanIdentifier(src, pos) ==
    LET e   == RunEnd(src, pos + 1, LiteralRunes)
        buf == SubSeq(src, pos, e - 1)
        up  == Str(ToUpper(buf))
    IN  Tok(IF up \in Keywords THEN up ELSE "IDENTIFIER", buf, e)

\* strconv.ParseFloat succeeds on a run of digits and dots that starts with a
\* digit: when it holds at most one dot.
ParseFloatOk(s) ==
    /\ s # <<>>
    /\ Cardinality({i \in DOMAIN s : s[i] = "."}) <= 1

\* scanNumber consumes all digit or dot runes.
scanNumber(src, pos) ==
    LET e == RunEnd(src, pos, Digits \cup {"."})
        s == SubSeq(src, pos, e - 1)
    IN  IF AtoiOk(s) THEN Tok("DIGIT", s, e)
        ELSE IF ParseFloatOk(s) THEN Tok("DECIMAL", s, e)
        ELSE Tok("ILLEGAL", <<>>, e)

\* The loop of scanQuotedString, the opening quote read: every rune read is
\* written to the buffer, the rune after a backslash is written unexamined, and
\* the loop ends after the rune equal to the opening quote was written.
RECURSIVE quotedLoop(_, _, _, _)
quotedLoop(src, pos, quote, buf) ==
    LET r == read(src, pos)
    IN  IF r = eof THEN Tok("ILLEGAL", <<>>, pos)
        ELSE IF r = "\\"
        THEN quotedLoop(src, advance(src, pos + 1), quote,
                        buf \o <<r, read(src, pos + 1)>>)
        ELSE IF r = quote THEN Tok("STRING", Append(buf, r), pos + 1)
        ELSE quotedLoop(src, pos + 1, quote, Append(buf, r))

\* scanQuotedString consumes the current rune and all runes after it until the
\* next unprotected quote character.
scanQuotedString(src, pos) ==
    IF isQuote(read(src, pos))
    THEN quotedLoop(src, pos + 1, src[pos], <<>>)
    ELSE Tok("ILLEGAL", <<>>, advance(src, pos))

\* scanValueLiteral consumes all value literal runes: the rune that ends the
\* run was read and is not unread.
scanValueLiteral(src, pos) ==
    LET e == RunEnd(src, pos, {"."} \cup LiteralRunes)
    IN  Tok("VALUE_LITERAL", SubSeq(src, pos, e - 1), advance(src, e))

\* (tk Token, list []string), and the reader position after them.
ListOf(tk, list, pos) == [t |-> tk, list |-> list, pos |-> pos]

\* The loop of scanList over the runes between the square brackets, tk the
\* kind of the list and list its elements so far.
RECURSIVE listLoop(_, _, _, _)
listLoop(src, pos, tk, list) ==
    LET r == read(src, pos)
    IN  IF r = eof THEN ListOf("ILLEGAL", list, pos)
        ELSE IF isQuote(r)
        \* A list can only be string list or a value literal list but not the both.
        THEN IF tk = "VALUE_LITERAL_LIST" THEN ListOf("ILLEGAL", list, pos)
             ELSE LET s == scanQuotedString(src, pos)
                  IN  listLoop(src, s.pos, "STRING_LIST", Append(list, s.l))
        ELSE IF isLiteral(r)
        THEN IF tk = "STRING_LIST" THEN ListOf("ILLEGAL", list, pos)
             ELSE LET v == scanValueLiteral(src, pos)
                  IN  listLoop(src, v.pos, "VALUE_LITERAL_LIST", Append(list, v.l))
        \* End of the list.
        ELSE IF r = "]" THEN ListOf(tk, list, pos + 1)
        \* If the rune is not a comma or whitespace then break the loop.
        ELSE IF r # "," /\ ~isWhitespace(r) THEN ListOf("ILLEGAL", list, pos)
        ELSE listLoop(src, pos + 1, tk, list)

\* scanList consumes all runes between left and right square brackets; the
\* results are the zero values, ILLEGAL and no element, until they are set.
scanList(src, pos) ==
    IF read(src, pos) # "["
    THEN ListOf("ILLEGAL", <<>>, advance(src, pos))
    ELSE listLoop(src, pos + 1, "ILLEGAL", <<>>)

\* The tokens the parser reads that the scanner source does not produce: the
\* statement separator, the vertical-output marker and the square brackets.
scanEnding(src, pos) ==
    LET r == read(src, pos)
    IN  CASE r = ";" -> Tok("SEMICOLON", <<r>>, pos + 1)
          [] r = "[" -> Tok("LEFT_SQUARE_BRACKETS", <<r>>, pos + 1)
          [] r = "]" -> Tok("RIGHT_SQUARE_BRACKETS", <<r>>, pos + 1)
          [] r = "\\" /\ read(src, pos + 1) = "G" ->
                 Tok("G_MODIFIER", <<r, "G">>, pos + 2)
          [] OTHER -> Tok("ILLEGAL", <<r>>, pos + 1)

\* A variant of scanOperator that does not unread the rune read ahead.
scanOperatorAhead(src, pos, two, one) ==
    IF read(src, pos + 1) = "="
    THEN Tok(two, <<src[pos], "=">>, pos + 2)
    ELSE Tok(one, <<src[pos]>>, advance(src, pos + 1))

\* One rune of lookahead for the two-character operators: the token `two` when
\* the next rune is "=", else the rune is unread and `one` is returned with the
\* single rune as literal.
scanOperator(src, pos, two, one) ==
    IF read(src, pos + 1) = "="
    THEN Tok(two, <<src[pos], "=">>, pos + 2)
    ELSE Tok(one, <<src[pos]>>, pos + 1)

\* Scan returns the next token and literal value, from reader position pos.
Scan(src, pos) ==
    LET r == read(src, pos)
    IN  CASE isWhitespace(r) -> scanWhitespace(src, pos)
          [] isQuote(r)      -> scanQuotedString(src, pos)
          [] isLetter(r)     -> scanIdentifier(src, pos)
          [] isDigit(r)      -> scanNumber(src, pos)
          [] r = eof         -> Tok("EOF", <<>>, pos)
          [] r = "*"         -> Tok("ASTERISK", <<r>>, pos + 1)
          [] r = ","         -> Tok("COMMA", <<r>>, pos + 1)
          [] r = "("         -> Tok("LEFT_PARENTHESIS", <<r>>, pos + 1)
          [] r = ")"         -> Tok("RIGHT_PARENTHESIS", <<r>>, pos + 1)
          [] r = "="         -> Tok("EQUAL", <<r>>, pos + 1)
          [] r = "!"         -> scanOperator(src, pos, "DIFFERENT", "ILLEGAL")
          [] r = ">"         -> scanOperator(src, pos, "SUPERIOR_OR_EQUAL", "SUPERIOR")
          [] r = "<"         -> scanOperator(src, pos, "INFERIOR_OR_EQUAL", "INFERIOR")
          [] OTHER           -> scanEnding(src, pos)

(***************************************************************************)
(* Statements                                                              *)
(***************************************************************************)

\* Column{ColumnName, ColumnAlias} embedded in Field{Method, Distinct}.
Field(name) ==
    [ColumnName |-> name, ColumnAlias |-> <<>>, Method |-> <<>>, Distinct |-> FALSE]

\* Condition{Column, Operator, Value, IsValueLiteral}.
Condition(name) ==
    [ColumnName |-> name, Operator |-> <<>>, Value |-> <<>>, IsValueLiteral |-> FALSE]

\* ColumnPosition{Column, Position}.
ColumnPosition(f, pos) ==
    [ColumnName |-> f.ColumnName, ColumnAlias |-> f.ColumnAlias, Position |-> pos]

\* Ordering{ColumnPosition, SortDesc}.
Ordering(c, desc) ==
    [ColumnName |-> c.ColumnName, ColumnAlias |-> c.ColumnAlias,
     Position |-> c.Position, SortDesc |-> desc]

\* Pattern{Equal, Prefix, Contains, Suffix}.
Pattern == [Equal |-> <<>>, Prefix |-> <<>>, Contains |-> <<>>, Suffix |-> <<>>]

\* No statement: the nil a parse function returns beside an error.
NilStatement == [kind |-> "nil"]

\* &SelectStatement{}
SelectStatement ==
    [kind |-> "Select", Fields |-> <<>>, TableName |-> <<>>, GModifier |-> FALSE,
     Where |-> <<>>, During |-> <<>>, GroupBy |-> <<>>, OrderBy |-> <<>>,
     Offset |-> 0, RowCount |-> 0, WithRowCount |-> FALSE]

\* &DescribeStatement{}
DescribeStatement ==
    [kind |-> "Describe", Full |-> FALSE, Fields |-> <<>>, TableName |-> <<>>,
     GModifier |-> FALSE]

\* &ShowStatement{}
ShowStatement ==
    [kind |-> "Show", Full |-> FALSE, Like |-> Pattern, With |-> <<>>,
     GModifier |-> FALSE]

\* &CreateViewStatement{}
CreateViewStatement ==
    [kind |-> "CreateView", Fields |-> <<>>, TableName |-> <<>>,
     GModifier |-> FALSE, Replace |-> FALSE, View |-> NilStatement]

\* stmt.SetVerticalOutput(true)
SetVerticalOutput(stmt) == [stmt EXCEPT !.GModifier = TRUE]

(***************************************************************************)
(* Errors: the message template and the text it is filled with; `inner` is *)
(* the template of a message embedded as that text.                        *)
(***************************************************************************)

NoErr == [kind |-> "nil", arg |-> <<>>, inner |-> ""]

Err(kind, arg) == [kind |-> kind, arg |-> arg, inner |-> ""]

\* A variant of ErrWrap that returns the error as it is, with no message
\* around it.
ErrInner(kind, e) == e

\* fmt.Sprintf(ErrMsgBadGroup, err.Error()), err an unknown-column error.
ErrWrap(kind, e) == [kind |-> kind, arg |-> e.arg, inner |-> e.kind]

\* fmt.Sprintf("%s", 0): the verb %s given the int 0.
BadVerbZero == <<"%", "!", "s", "(", "i", "n", "t", "=", "0", ")">>

(***************************************************************************)
(* Predicates of the grammar                                               *)
(***************************************************************************)

\* isFunction returns true if it is an aggregate function.
isFunction(s) == Str(ToUpper(s)) \in {"AVG", "COUNT", "MAX", "MIN", "SUM"}

\* isOperator returns true if the token is an operator.
isOperator(tk) ==
    tk \in {"EQUAL", "DIFFERENT", "SUPERIOR", "SUPERIOR_OR_EQUAL", "INFERIOR",
            "INFERIOR_OR_EQUAL", "IN", "NOT_IN", "STARTS_WITH",
            "STARTS_WITH_IGNORE_CASE", "CONTAINS", "CONTAINS_IGNORE_CASE",
            "DOES_NOT_CONTAIN", "DOES_NOT_CONTAIN_IGNORE_CASE"}

\* isDateRangeLiteral returns true if the string is a date range literal.
isDateRangeLiteral(s) ==
    Str(s) \in {"TODAY", "YESTERDAY", "THIS_WEEK_SUN_TODAY", "THIS_WEEK_MON_TODAY",
                "LAST_WEEK", "LAST_7_DAYS", "LAST_14_DAYS", "LAST_30_DAYS",
                "LAST_BUSINESS_WEEK", "LAST_WEEK_SUN_SAT", "THIS_MONTH"}

\* The days of a month, as time.Parse checks the day of the month.
isLeap(year) == year % 4 = 0 /\ (year % 100 # 0 \/ year % 400 = 0)

daysIn(month, year) ==
    IF month = 2 THEN (IF isLeap(year) THEN 29 ELSE 28)
    ELSE IF month \in {4, 6, 9, 11} THEN 30 ELSE 31

\* isDate: time.Parse("20060102", s) succeeds: four digits of year, two of
\* month, two of day, nothing after them, and a day that exists.
isDate(s) ==
    /\ Len(s) = 8
    /\ \A i \in DOMAIN s : isDigit(s[i])
    /\ LET year  == Atoi(SubSeq(s, 1, 4))
           month == Atoi(SubSeq(s, 5, 6))
           day   == Atoi(SubSeq(s, 7, 8))
       IN  /\ month \in 1..12
           /\ day >= 1
           /\ day <= daysIn(month, year)

(***************************************************************************)
(* Column lookup                                                           *)
(***************************************************************************)

\* The result of a lookup: the column found, or ok = FALSE.
Found(c) == [ok |-> TRUE, col |-> c]

NotFound == [ok |-> FALSE, col |-> ColumnPosition(Field(<<>>), 0)]

\* A variant of searchColumnByPosition that returns the index of the field in
\* the slice for its position.
searchColumnByIndex(fields, pos) ==
    IF pos < 1 \/ pos > Len(fields)
    THEN NotFound
    ELSE Found(ColumnPosition(fields[pos], pos - 1))

\* searchColumnByPosition returns the column matching the search position.
searchColumnByPosition(fields, pos) ==
    IF pos < 1 \/ pos > Len(fields)
    THEN NotFound
    ELSE Found(ColumnPosition(fields[pos], pos))

\* A variant of searchColumn that returns the last field of that name or
\* alias.
searchColumnLast(fields, expr) ==
    IF AtoiOk(expr)
    THEN searchColumnByPosition(fields, Atoi(expr))
    ELSE LET hits == {i \in DOMAIN fields :
                        fields[i].ColumnName = expr \/ fields[i].ColumnAlias = expr}
         IN  IF hits = {} THEN NotFound
             ELSE LET i == CHOOSE j \in hits : \A k \in hits : j >= k
                  IN  Found(ColumnPosition(fields[i], i))

\* searchColumn returns the column matching the search expression: by
\* position if expr is a number, else the first field of that name or alias.
searchColumn(fields, expr) ==
    IF AtoiOk(expr)
    THEN searchColumnByPosition(fields, Atoi(expr))
    ELSE LET hits == {i \in DOMAIN fields :
                        fields[i].ColumnName = expr \/ fields[i].ColumnAlias = expr}
         IN  IF hits = {} THEN NotFound
             ELSE LET i == CHOOSE j \in hits : \A k \in hits : j <= k
                  IN  Found(ColumnPosition(fields[i], i))

(***************************************************************************)
(* Parser: the token buffer                                                *)
(*   p.pos  the scanner's reader position                                  *)
(*   p.t, p.l  buf.t, buf.l: the last token read and its literal           *)
(*   p.n    buf.n: 1 when that token was pushed back                       *)
(* and, to tell what was called in which order:                            *)
(*   p.k    the number of tokens read from the scanner                     *)
(*   p.log  the calls made: 0 for an unscan, and for a scan the rank, in   *)
(*          the order of the scanner, of the token it returned             *)
(*   p.w    TRUE once scanIgnoreWhitespace has returned a WHITE_SPACE      *)
(***************************************************************************)

\* NewParser: a scanner at the start of the text, an empty buffer.
NewParser ==
    [pos |-> 1, t |-> "ILLEGAL", l |-> <<>>, n |-> 0, k |-> 0, log |-> <<>>,
     w |-> FALSE]

\* The buffer once the token r read from the scanner is saved in it.
buffered(r, p) ==
    [pos |-> r.pos, t |-> r.t, l |-> r.l, n |-> 0, k |-> p.k + 1,
     log |-> Append(p.log, p.k + 1), w |-> p.w]

\* A variant of scan that reads the next token from the scanner whatever the
\* buffer holds.
scanAfresh(src, p) == buffered(Scan(src, p.pos), p)

\* scan returns the next token from the underlying scanner; if a token has
\* been unscanned then read that instead.  The token returned is (p.t, p.l).
scan(src, p) ==
    IF p.n # 0 THEN [p EXCEPT !.n = 0, !.log = Append(@, p.k)]
    ELSE buffered(Scan(src, p.pos), p)

\* unscan pushes the previously read token back onto the buffer.
unscan(p) == [p EXCEPT !.n = 1, !.log = Append(@, 0)]

\* A variant of the second scan of scanIgnoreWhitespace that returns the
\* token of the first scan whatever it is.
keepWhitespace(src, q) == q

\* scanIgnoreWhitespace, its first token read into q: a whitespace is skipped.
skipWhitespace(src, q) == IF q.t = "WHITE_SPACE" THEN scan(src, q) ELSE q

\* scanIgnoreWhitespace scans the next non-whitespace token.
\* The buffer once scanIgnoreWhitespace has returned the token it holds.
returned(q) == [q EXCEPT !.w = @ \/ q.t = "WHITE_SPACE"]

scanIgnoreWhitespace(src, p) == returned(skipWhitespace(src, scan(src, p)))

(***************************************************************************)
(* Parser: the sub-grammars, as functions of the buffer.  A sub-grammar    *)
(* scanX reads a token and hands it, as a buffer, to the operator that     *)
(* holds the code after the read.                                          *)
(***************************************************************************)

\* The outcome of a sub-grammar: the buffer after it, the value built, the
\* literal last assigned to the enclosing `literal` variable, and the error.
Out(p, val, lit, e) == [p |-> p, val |-> val, lit |-> lit, err |-> e]

\* The column of a DISTINCT, read into d.
distinctColumn(d, field, lit) ==
    IF d.t # "IDENTIFIER"
    THEN Out(d, field, lit, Err("INVALID_FIELD", d.l))
    ELSE Out(d, [field EXCEPT !.Distinct = TRUE, !.ColumnName = d.l], lit, NoErr)

\* scanDistinct scans the next runes as the column of a DISTINCT.
scanDistinct(src, p, field, lit) ==
    distinctColumn(scanIgnoreWhitespace(src, p), field, lit)

\* The token c after the argument of an aggregate call: the call is refused
\* when that token is the right parenthesis.
functionEnd(c, o) ==
    IF c.t = "RIGHT_PARENTHESIS"
    THEN Out(c, o.val, o.lit, Err("INVALID_FUNCTION", o.lit))
    ELSE Out(c, o.val, o.lit, NoErr)

\* The end of an aggregate call (parseSelect, "Next, we expect the end of the
\* function"), o the outcome of its argument.
scanFunctionEnd(src, o) ==
    IF o.err # NoErr THEN o
    ELSE functionEnd(scanIgnoreWhitespace(src, o.p), o)

\* The argument a of an aggregate call: a distinct clause, a column position
\* or just a column name.
functionArgument(src, a, fields, field) ==
    CASE a.t = "ASTERISK" ->
             IF Str(field.Method) # "COUNT"
             THEN Out(a, field, a.l, Err("INVALID_METHOD", a.l))
             ELSE Out(a, [field EXCEPT !.ColumnName = a.l], a.l, NoErr)
      [] a.t = "DISTINCT" -> scanDistinct(src, a, field, a.l)
      [] a.t = "DIGIT" ->
             LET column == searchColumnByPosition(fields, Atoi(a.l))
             IN  IF ~column.ok
                 THEN Out(a, field, a.l, Err("INVALID_METHOD", a.l))
                 ELSE Out(a, [field EXCEPT
                                !.ColumnName = column.col.ColumnName,
                                !.ColumnAlias = column.col.ColumnAlias],
                          a.l, NoErr)
      [] a.t = "IDENTIFIER" ->
             Out(a, [field EXCEPT !.ColumnName = a.l], a.l, NoErr)
      [] OTHER -> Out(a, field, a.l, Err("INVALID_FUNCTION", a.l))

\* The argument of an aggregate call, the left parenthesis read.
scanFunctionArgument(src, p, fields, field) ==
    functionArgument(src, scanIgnoreWhitespace(src, p), fields, field)

\* A variant of fieldFunction in which a function that does not exist is
\* refused by the error of an invalid field.
fieldFunctionAsField(src, q, f, fields) ==
    IF f.t # "LEFT_PARENTHESIS"
    THEN Out(unscan(f), Field(q.l), q.l, NoErr)
    ELSE IF ~isFunction(q.l)
    THEN Out(f, Field(<<>>), q.l, Err("INVALID_FIELD", q.l))
    ELSE scanFunctionEnd(src,
             scanFunctionArgument(src, f, fields,
                 [Field(<<>>) EXCEPT !.Method = ToUpper(q.l)]))

\* A field that starts with the identifier q, f the token that follows it:
\* next we may find a function declaration.
fieldFunction(src, q, f, fields) ==
    IF f.t # "LEFT_PARENTHESIS"
    THEN Out(unscan(f), Field(q.l), q.l, NoErr)
    ELSE IF ~isFunction(q.l)
    THEN Out(f, Field(<<>>), q.l, Err("INVALID_FUNCTION", q.l))
    ELSE scanFunctionEnd(src,
             scanFunctionArgument(src, f, fields,
                 [Field(<<>>) EXCEPT !.Method = ToUpper(q.l)]))

\* A field, its first token read into q.
fieldStart(src, q, fields) ==
    CASE q.t = "ASTERISK" -> Out(q, Field(q.l), q.l, NoErr)
      [] q.t = "DISTINCT" -> scanDistinct(src, q, Field(<<>>), q.l)
      [] q.t = "IDENTIFIER" -> fieldFunction(src, q, scan(src, q), fields)
      [] OTHER -> Out(q, Field(<<>>), q.l, Err("INVALID_FIELD", q.l))

\* One field of the select list, up to its alias (parseSelect, "Read a field").
scanField(src, p, fields) == fieldStart(src, scanIgnoreWhitespace(src, p), fields)

\* The name n read after "AS".
aliasName(n, o) ==
    IF n.t # "IDENTIFIER"
    THEN Out(n, o.val, o.lit, Err("INVALID_FIELD", n.l))
    ELSE Out(n, [o.val EXCEPT !.ColumnAlias = n.l], o.lit, NoErr)

\* The token s after a field: "AS" and a name, a name alone, whose alias is
\* taken from the enclosing `literal`, or a token to push back.
alias(src, s, o) ==
    IF s.t = "AS" THEN aliasName(scanIgnoreWhitespace(src, s), o)
    ELSE IF s.t = "IDENTIFIER"
    THEN Out(s, [o.val EXCEPT !.ColumnAlias = o.lit], o.lit, NoErr)
    ELSE Out(unscan(s), o.val, o.lit, NoErr)

\* The optional alias of a field (parseSelect, "Next we may find an alias name
\* for the column"): o is the outcome of scanField.
scanAlias(src, o) ==
    IF o.err # NoErr THEN o ELSE alias(src, scanIgnoreWhitespace(src, o.p), o)

\* The loop of Parser.scanValueList, the left bracket read.  The loop's own
\* tk and literal are declared in its body: the function's result tk keeps
\* the token read before the loop, and every token that does not end the loop,
\* a comma as well, is appended to the list.
RECURSIVE valueListLoop(_, _, _)
valueListLoop(src, p, list) ==
    LET q == scanIgnoreWhitespace(src, p)
    IN  IF q.t \in {"STRING", "VALUE_LITERAL", "IDENTIFIER", "COMMA"}
        THEN valueListLoop(src, q, Append(list, q.l))
        ELSE Out(q, list, <<>>, NoErr)

\* What scanValueList returns, b its first token and o the outcome of its loop:
\* the list, and in `lit` the token kind.
valueListResult(b, o) == Out(o.p, o.val, b.t, NoErr)

\* scanValueList, its first token read into b.
valueList(src, b) ==
    IF b.t # "LEFT_SQUARE_BRACKETS"
    THEN Out(b, <<>>, b.t, NoErr)
    ELSE valueListResult(b, valueListLoop(src, b, <<>>))

\* scanValueList consumes all tokens between left and right square brackets.
scanValueList(src, p) == valueList(src, scanIgnoreWhitespace(src, p))

\* A variant of conditionList in which the error names the token that ended
\* the list.
conditionListEnd(o, cond, v) ==
    IF o.lit \notin {"VALUE_LITERAL_LIST", "STRING_LIST"}
    THEN Out(o.p, [cond EXCEPT !.Value = o.val], v.l, Err("SYNTAX_NEAR", o.p.l))
    ELSE Out(o.p,
             [cond EXCEPT !.Value = o.val,
                          !.IsValueLiteral = (o.lit = "STRING_LIST")],
             v.l, NoErr)

\* The value of a condition that starts with the left bracket v, o the outcome
\* of scanValueList.
conditionList(o, cond, v) ==
    IF o.lit \notin {"VALUE_LITERAL_LIST", "STRING_LIST"}
    THEN Out(o.p, [cond EXCEPT !.Value = o.val], v.l, Err("SYNTAX_NEAR", v.l))
    ELSE Out(o.p,
             [cond EXCEPT !.Value = o.val,
                          !.IsValueLiteral = (o.lit = "STRING_LIST")],
             v.l, NoErr)

\* The value of a condition, its first token read into v.
conditionValue(src, cond, v) ==
    CASE v.t = "STRING" ->
             Out(v, [cond EXCEPT !.IsValueLiteral = TRUE, !.Value = <<v.l>>],
                 v.l, NoErr)
      [] v.t \in {"DECIMAL", "DIGIT", "VALUE_LITERAL"} ->
             Out(v, [cond EXCEPT !.Value = <<v.l>>], v.l, NoErr)
      [] v.t = "LEFT_SQUARE_BRACKETS" ->
             conditionList(scanValueList(src, unscan(v)), cond, v)
      [] OTHER -> Out(v, cond, v.l, Err("SYNTAX_NEAR", v.l))

\* The operator of the condition on column c, read into op.
conditionOperator(src, c, op) ==
    IF ~isOperator(op.t)
    THEN Out(op, Condition(c.l), <<>>, Err("SYNTAX_NEAR", op.l))
    ELSE conditionValue(src, [Condition(c.l) EXCEPT !.Operator = op.l],
                        scanIgnoreWhitespace(src, op))

\* A condition, its first token read into c.
conditionColumn(src, c) ==
    IF c.t # "IDENTIFIER"
    THEN Out(c, Condition(<<>>), <<>>, Err("INVALID_FIELD", c.l))
    ELSE conditionOperator(src, c, scanIgnoreWhitespace(src, c))

\* One condition of the WHERE clause (parseSelect, "Parse each condition").
scanCondition(src, p) == conditionColumn(src, scanIgnoreWhitespace(src, p))

\* The token q that should end the query.
queryEnding(q, stmt) ==
    CASE q.t = "G_MODIFIER" -> Out(q, SetVerticalOutput(stmt), q.l, NoErr)
      [] q.t \in {"SEMICOLON", "EOF"} -> Out(q, stmt, q.l, NoErr)
      [] OTHER -> Out(q, stmt, q.l, Err("SYNTAX_NEAR", q.l))

\* scanQueryEnding scans the next runes as query ending.
scanQueryEnding(src, p, stmt) == queryEnding(scanIgnoreWhitespace(src, p), stmt)

(***************************************************************************)
(* State                                                                   *)
(*   entry       the method called: Parse, or one grammar directly, or     *)
(*               Scan or scanList of the scanner alone, or String          *)
(*   src         the text the parser's reader was made of                  *)
(*   p           the scanner position and the token buffer                 *)
(*   pc          the place the running parse function has reached          *)
(*   stmt        the statement the running parse function builds; once pc  *)
(*               is "done", the statement a direct entry returned, or the  *)
(*               token and the list scanList returned                      *)
(*   view        in parseCreateView, the statement built while parseSelect *)
(*               reads the SELECT of the view                              *)
(*   dateLiteral parseSelect's local of the DURING clause                  *)
(*   statements, err   the results of Parse; err also of a direct entry    *)
(*   first       the statement formatted, while its String() is parsed     *)
(*   other       the state of a second Parser, made of its own reader, on  *)
(*               which no method is running now; NoInstance when there is  *)
(*               one Parser only                                           *)
(***************************************************************************)
VARIABLES entry, src, p, pc, stmt, view, dateLiteral, statements, err, first, other

vars == <<entry, src, p, pc, stmt, view, dateLiteral, statements, err, first, other>>

\* A variant of Fail in which Parse appends the statement it was given
\* before it looks at the error.
FailAppending(q, e) ==
    /\ p' = q
    /\ err' = e
    /\ pc' = "done"
    /\ stmt' = NilStatement
    /\ view' = NilStatement
    /\ statements' = Append(statements, stmt)
    /\ UNCHANGED <<entry, src, dateLiteral, first, other>>

\* A variant of Fail in which the method called starts again on a new reader
\* of the text in place of returning the error.
FailAgain(q, e) ==
    /\ p' = NewParser
    /\ pc' = entry
    /\ stmt' = NilStatement
    /\ view' = NilStatement
    /\ UNCHANGED <<entry, src, dateLiteral, statements, err, first, other>>

\* A parse function returns (nil, e): the caller returns it at once, Parse
\* with the statements it has.
Fail(q, e) ==
    /\ p' = q
    /\ err' = e
    /\ pc' = "done"
    /\ stmt' = NilStatement
    /\ view' = NilStatement
    /\ UNCHANGED <<entry, src, dateLiteral, statements, first, other>>

\* A step of a parse function that goes on at `next`.
Goto(q, s, next) ==
    /\ p' = q
    /\ stmt' = s
    /\ pc' = next
    /\ UNCHANGED <<entry, src, view, dateLiteral, statements, err, first, other>>

\* A parse function returns (s, nil) to Parse, or to the caller of the entry.
Return(q, s) ==
    /\ p' = q
    /\ stmt' = s
    /\ view' = NilStatement
    /\ pc' = IF entry = "Parse" THEN "parsed" ELSE "done"
    /\ UNCHANGED <<entry, src, dateLiteral, statements, err, first, other>>

(***************************************************************************)
(* Parse.  In an action, a token read is bound by \E to the buffer that    *)
(* holds it: \E k \in {scanIgnoreWhitespace(src, p)} reads k.              *)
(***************************************************************************)

\* Parse, the head of the loop: retrieve the first token of the statement and
\* choose the grammar.
ParseStatement ==
    /\ pc = "Parse"
    /\ \E q \in {scanIgnoreWhitespace(src, p)} :
         CASE q.t \in {"DESC", "DESCRIBE"} -> Goto(unscan(q), stmt, "parseDescribe")
           [] q.t = "CREATE" -> Goto(unscan(q), stmt, "parseCreateView")
           [] q.t = "SELECT" -> Goto(unscan(q), stmt, "parseSelect")
           [] q.t = "SHOW"   -> Goto(unscan(q), stmt, "parseShow")
           [] OTHER          -> Fail(q, Err("UNKWOWN_STATEMENT", <<>>))

\* Parse, the end of the loop: append the statement and, if the next token is
\* EOF, break the loop.
ParseNext ==
    /\ pc = "parsed"
    /\ \E q \in {scanIgnoreWhitespace(src, p)} :
         /\ statements' = Append(statements, stmt)
         /\ p' = q
         /\ stmt' = NilStatement
         /\ pc' = IF q.t = "EOF" THEN "done" ELSE "Parse"
         /\ UNCHANGED <<entry, src, view, dateLiteral, err, first, other>>

(***************************************************************************)
(* DESCRIBE                                                                *)
(***************************************************************************)

\* A variant of parseDescribe that does not keep the "FULL" keyword.
parseDescribeNotFull ==
    /\ pc = "parseDescribe"
    /\ \E k \in {scanIgnoreWhitespace(src, p)} :
       \E f \in {scanIgnoreWhitespace(src, k)} :
       \E t \in {scanIgnoreWhitespace(src, IF f.t = "FULL" THEN f ELSE unscan(f))} :
       \E c \in {scanIgnoreWhitespace(src, t)} :
       \E s \in {[DescribeStatement EXCEPT
                    !.TableName = t.l,
                    !.Fields = IF c.t = "IDENTIFIER"
                               THEN Append(@, Field(c.l)) ELSE @]} :
       \E e \in {scanQueryEnding(src, IF c.t = "IDENTIFIER" THEN c ELSE unscan(c), s)} :
         IF k.t \notin {"DESC", "DESCRIBE"}
         THEN Fail(k, Err("INVALID_METHOD", k.l))
         ELSE IF t.t # "IDENTIFIER"
         THEN Fail(t, Err("INVALID_SOURCE", t.l))
         ELSE IF e.err # NoErr
         THEN Fail(e.p, e.err)
         ELSE Return(e.p, e.val)

\* parseDescribe parses a AWQL DESCRIBE statement: the keyword k, the token f
\* that may be "FULL", the table name t, the token c that may be a column
\* name, and the end of the query.
parseDescribe ==
    /\ pc = "parseDescribe"
    /\ \E k \in {scanIgnoreWhitespace(src, p)} :
       \E f \in {scanIgnoreWhitespace(src, k)} :
       \E t \in {scanIgnoreWhitespace(src, IF f.t = "FULL" THEN f ELSE unscan(f))} :
       \E c \in {scanIgnoreWhitespace(src, t)} :
       \E s \in {[DescribeStatement EXCEPT
                    !.Full = (f.t = "FULL"),
                    !.TableName = t.l,
                    !.Fields = IF c.t = "IDENTIFIER"
                               THEN Append(@, Field(c.l)) ELSE @]} :
       \E e \in {scanQueryEnding(src, IF c.t = "IDENTIFIER" THEN c ELSE unscan(c), s)} :
         IF k.t \notin {"DESC", "DESCRIBE"}
         THEN Fail(k, Err("INVALID_METHOD", k.l))
         ELSE IF t.t # "IDENTIFIER"
         THEN Fail(t, Err("INVALID_SOURCE", t.l))
         ELSE IF e.err # NoErr
         THEN Fail(e.p, e.err)
         ELSE Return(e.p, e.val)

(***************************************************************************)
(* SHOW                                                                    *)
(***************************************************************************)

HasPrefix(s, r) == s # <<>> /\ s[1] = r

HasSuffix(s, r) == s # <<>> /\ s[Len(s)] = r

\* strings.TrimPrefix, strings.TrimSuffix of one rune, and strings.Trim of
\* every leading and trailing rune r.
TrimPrefix(s, r) == IF HasPrefix(s, r) THEN Tail(s) ELSE s

TrimSuffix(s, r) == IF HasSuffix(s, r) THEN SubSeq(s, 1, Len(s) - 1) ELSE s

RECURSIVE TrimLeft(_, _)
TrimLeft(s, r) == IF HasPrefix(s, r) THEN TrimLeft(Tail(s), r) ELSE s

RECURSIVE TrimRight(_, _)
TrimRight(s, r) ==
    IF HasSuffix(s, r) THEN TrimRight(SubSeq(s, 1, Len(s) - 1), r) ELSE s

Trim(s, r) == TrimRight(TrimLeft(s, r), r)

\* Like with %
wildcard == "%"

\* The LIKE clause can have wildcard characters in the pattern.
likePattern(pattern) ==
    LET wl == HasPrefix(pattern, wildcard)
        wr == HasSuffix(pattern, wildcard)
    IN  IF wl /\ wr THEN [Pattern EXCEPT !.Contains = Trim(pattern, wildcard)]
        ELSE IF ~wl /\ ~wr THEN [Pattern EXCEPT !.Equal = pattern]
        ELSE IF wl THEN [Pattern EXCEPT !.Suffix = TrimPrefix(pattern, wildcard)]
        ELSE [Pattern EXCEPT !.Prefix = TrimSuffix(pattern, wildcard)]

\* The statement of parseShow after its optional clause, clause the token
\* that may be "LIKE" or "WITH" and pat the token after it.
showClause(s, clause, pat) ==
    IF clause.t = "LIKE" THEN [s EXCEPT !.Like = likePattern(pat.l)]
    ELSE IF clause.t = "WITH" THEN [s EXCEPT !.With = pat.l]
    ELSE s

\* parseShow parses a AWQL SHOW statement: the keyword k, the token f that may
\* be "FULL", the "TABLES" keyword t, the token that may be "LIKE" or "WITH"
\* with its pattern, and the end of the query.
parseShow ==
    /\ pc = "parseShow"
    /\ \E k \in {scanIgnoreWhitespace(src, p)} :
       \E f \in {scanIgnoreWhitespace(src, k)} :
       \E t \in {scanIgnoreWhitespace(src, IF f.t = "FULL" THEN f ELSE unscan(f))} :
       \E clause \in {scanIgnoreWhitespace(src, t)} :
       \E pat \in {scanIgnoreWhitespace(src, clause)} :
       \E with \in {clause.t \in {"LIKE", "WITH"}} :
       \E e \in {scanQueryEnding(src, IF with THEN pat ELSE unscan(clause),
                    showClause([ShowStatement EXCEPT !.Full = (f.t = "FULL")],
                               clause, pat))} :
         IF k.t # "SHOW"
         THEN Fail(k, Err("INVALID_METHOD", k.l))
         ELSE IF t.t # "TABLES"
         THEN Fail(t, Err("SYNTAX_NEAR", t.l))
         ELSE IF with /\ pat.t = "IDENTIFIER" /\ clause.t = "LIKE"
         THEN Fail(pat, Err("SYNTAX_NEAR", pat.l))
         ELSE IF with /\ pat.t \notin {"IDENTIFIER", "STRING"}
         THEN Fail(pat, Err("SYNTAX_NEAR", pat.l))
         ELSE IF e.err # NoErr
         THEN Fail(e.p, e.err)
         ELSE Return(e.p, e.val)

(***************************************************************************)
(* CREATE VIEW                                                             *)
(***************************************************************************)

\* parseCreateView, up to the view name and the parenthesis that may follow:
\* the keyword k, the token o that may be "OR" and then r, "REPLACE", the
\* "VIEW" keyword v, the view name n and the token l.
parseCreateView ==
    /\ pc = "parseCreateView"
    /\ \E k \in {scanIgnoreWhitespace(src, p)} :
       \E o \in {scanIgnoreWhitespace(src, k)} :
       \E r \in {scanIgnoreWhitespace(src, o)} :
       \E v \in {scanIgnoreWhitespace(src, IF o.t = "OR" THEN r ELSE unscan(o))} :
       \E n \in {scanIgnoreWhitespace(src, v)} :
       \E l \in {scanIgnoreWhitespace(src, n)} :
       \E s \in {[CreateViewStatement EXCEPT
                    !.Replace = (o.t = "OR"), !.TableName = n.l]} :
         IF k.t # "CREATE"
         THEN Fail(k, Err("INVALID_METHOD", k.l))
         ELSE IF o.t = "OR" /\ r.t # "REPLACE"
         THEN Fail(r, Err("INVALID_METHOD", r.l))
         ELSE IF v.t # "VIEW"
         THEN Fail(v, Err("SYNTAX_NEAR", v.l))
         ELSE IF n.t # "IDENTIFIER"
         THEN Fail(n, Err("INVALID_SOURCE", n.l))
         \* Next we may see columns names.
         ELSE IF l.t = "LEFT_PARENTHESIS"
         THEN Goto(l, s, "viewColumn")
         ELSE Goto(unscan(l), s, "viewAs")

\* parseCreateView, one turn of the loop over the columns names.
parseViewColumn ==
    /\ pc = "viewColumn"
    /\ \E c \in {scanIgnoreWhitespace(src, p)} :
       \E m \in {scanIgnoreWhitespace(src, c)} :
       \E s \in {[stmt EXCEPT !.Fields = Append(@, Field(c.l))]} :
         IF c.t = "RIGHT_PARENTHESIS"
         THEN Goto(c, stmt, "viewAs")
         ELSE IF c.t # "IDENTIFIER"
         THEN Fail(c, Err("INVALID_FIELD", c.l))
         \* If the next token is not a comma then break the loop.
         ELSE IF m.t # "COMMA"
         THEN Goto(unscan(m), s, "viewAs")
         ELSE Goto(m, s, "viewColumn")

\* parseCreateView, the "AS" keyword and the call of parseSelect for the
\* query source of the view.
parseViewSource ==
    /\ pc = "viewAs"
    /\ \E a \in {scanIgnoreWhitespace(src, p)} :
         IF a.t # "AS"
         THEN Fail(a, Err("SYNTAX_NEAR", a.l))
         ELSE /\ p' = a
              /\ view' = stmt
              /\ stmt' = NilStatement
              /\ pc' = "parseSelect"
              /\ UNCHANGED <<entry, src, dateLiteral, statements, err, first, other>>

(***************************************************************************)
(* SELECT                                                                  *)
(***************************************************************************)

\* A variant of parseSelect in which a first token that is not "SELECT" is
\* refused by the error of syntax.
parseSelectNear ==
    /\ pc = "parseSelect"
    /\ \E k \in {scanIgnoreWhitespace(src, p)} :
         IF k.t # "SELECT"
         THEN Fail(k, Err("SYNTAX_NEAR", k.l))
         ELSE Goto(k, SelectStatement, "field")

\* parseSelect: first token should be a "SELECT" keyword.
parseSelect ==
    /\ pc = "parseSelect"
    /\ \E k \in {scanIgnoreWhitespace(src, p)} :
         IF k.t # "SELECT"
         THEN Fail(k, Err("INVALID_METHOD", k.l))
         ELSE Goto(k, SelectStatement, "field")

\* parseSelect, one turn of the loop over the comma-delimited fields.
parseSelectField ==
    /\ pc = "field"
    /\ \E o \in {scanAlias(src, scanField(src, p, stmt.Fields))} :
       \E c \in {scanIgnoreWhitespace(src, o.p)} :
       \E s \in {[stmt EXCEPT !.Fields = Append(@, o.val)]} :
         IF o.err # NoErr
         THEN Fail(o.p, o.err)
         \* If the next token is not a comma then break the loop.
         ELSE IF c.t # "COMMA"
         THEN Goto(unscan(c), s, "from")
         ELSE Goto(c, s, "field")

\* A variant of parseSelectFrom in which a token in place of FROM is refused
\* by the error of syntax that names it.
parseSelectFromSyntax ==
    /\ pc = "from"
    /\ \E f \in {scanIgnoreWhitespace(src, p)} :
       \E t \in {scanIgnoreWhitespace(src, f)} :
         IF f.t # "FROM"
         THEN Fail(f, Err("SYNTAX_NEAR", f.l))
         ELSE IF t.t # "IDENTIFIER"
         THEN Fail(t, Err("INVALID_SOURCE", t.l))
         ELSE Goto(t, [stmt EXCEPT !.TableName = t.l], "where")

\* parseSelect: the "FROM" keyword and the table name.
parseSelectFrom ==
    /\ pc = "from"
    /\ \E f \in {scanIgnoreWhitespace(src, p)} :
       \E t \in {scanIgnoreWhitespace(src, f)} :
         IF f.t # "FROM"
         THEN Fail(f, Err("MISSING_SOURCE", <<>>))
         ELSE IF t.t # "IDENTIFIER"
         THEN Fail(t, Err("INVALID_SOURCE", t.l))
         ELSE Goto(t, [stmt EXCEPT !.TableName = t.l], "where")

\* parseSelect: we may read a "WHERE" keyword, pushed back when it is another
\* token.
parseSelectWhere ==
    /\ pc = "where"
    /\ \E k \in {scanIgnoreWhitespace(src, p)} :
         IF k.t = "WHERE"
         THEN Goto(k, stmt, "condition")
         ELSE Goto(unscan(k), stmt, "during")

\* parseSelect, one turn of the loop over the conditions.
parseSelectCondition ==
    /\ pc = "condition"
    /\ \E o \in {scanCondition(src, p)} :
       \E a \in {scanIgnoreWhitespace(src, o.p)} :
       \E s \in {[stmt EXCEPT !.Where = Append(@, o.val)]} :
         IF o.err # NoErr
         THEN Fail(o.p, o.err)
         \* If the next token is not an "AND" keyword then break the loop.
         ELSE IF a.t # "AND"
         THEN Goto(unscan(a), s, "during")
         ELSE Goto(a, s, "condition")

\* parseSelect: we may read a "DURING" keyword.
parseSelectDuring ==
    /\ pc = "during"
    /\ \E k \in {scanIgnoreWhitespace(src, p)} :
         /\ p' = IF k.t = "DURING" THEN k ELSE unscan(k)
         /\ pc' = IF k.t = "DURING" THEN "range" ELSE "group"
         /\ dateLiteral' = FALSE
         /\ UNCHANGED <<entry, src, stmt, view, statements, err, first, other>>

\* A variant of duringError that lets a single date pass for a range.
duringErrorSingleDate(during, literal) ==
    IF Len(during) < 1 \/ Len(during) > 2
    THEN Err("INVALID_DURING", <<"unexpected number of date range">>)
    ELSE IF Len(during) = 2 /\ literal
    THEN Err("INVALID_DURING", <<"expected no literal date">>)
    ELSE NoErr

\* The bounds expected of the DURING list, checked when its loop ends.
duringError(during, literal) ==
    IF Len(during) < 1 \/ Len(during) > 2
    THEN Err("INVALID_DURING", <<"unexpected number of date range">>)
    ELSE IF Len(during) = 1 /\ ~literal
    THEN Err("INVALID_DURING", <<"expected date range literal">>)
    ELSE IF Len(during) = 2 /\ literal
    THEN Err("INVALID_DURING", <<"expected no literal date">>)
    ELSE NoErr

\* parseSelect, one turn of the loop over the dates of DURING, with the check
\* of the bounds when the loop ends.
parseSelectRange ==
    /\ pc = "range"
    /\ \E d \in {scanIgnoreWhitespace(src, p)} :
       \E date \in {d.t = "DIGIT" /\ isDate(d.l)} :
       \E lit \in {d.t = "IDENTIFIER" /\ isDateRangeLiteral(d.l)} :
       \E c \in {scanIgnoreWhitespace(src, d)} :
       \E s \in {[stmt EXCEPT !.During = Append(@, d.l)]} :
       \E e \in {duringError(Append(stmt.During, d.l), dateLiteral \/ lit)} :
         IF ~date /\ ~lit
         THEN Fail(d, Err("INVALID_DURING", d.l))
         ELSE IF c.t = "COMMA"
         THEN /\ p' = c
              /\ stmt' = s
              /\ dateLiteral' = (dateLiteral \/ lit)
              /\ UNCHANGED <<entry, src, pc, view, statements, err, first, other>>
         ELSE IF e # NoErr
         THEN Fail(unscan(c), e)
         ELSE /\ p' = unscan(c)
              /\ stmt' = s
              /\ dateLiteral' = (dateLiteral \/ lit)
              /\ pc' = "group"
              /\ UNCHANGED <<entry, src, view, statements, err, first, other>>

\* The head of GROUP BY and of ORDER BY: the keyword, pushed back when it is
\* another token, then "BY".
ClauseBy(keyword, kind, body, after) ==
    \E k \in {scanIgnoreWhitespace(src, p)} :
    \E b \in {scanIgnoreWhitespace(src, k)} :
      IF k.t # keyword
      THEN Goto(unscan(k), stmt, after)
      ELSE IF b.t # "BY"
      THEN Fail(b, Err(kind, b.l))
      ELSE Goto(b, stmt, body)

\* parseSelect: we may see a "GROUP" keyword.
parseSelectGroup ==
    /\ pc = "group"
    /\ ClauseBy("GROUP", "INVALID_GROUP_BY", "groupBy", "order")

\* parseSelect, one turn of the loop over the fields used to group.
parseSelectGroupBy ==
    /\ pc = "groupBy"
    /\ \E g \in {scanIgnoreWhitespace(src, p)} :
       \E groupBy \in {searchColumn(stmt.Fields, g.l)} :
       \E c \in {scanIgnoreWhitespace(src, g)} :
       \E s \in {[stmt EXCEPT !.GroupBy = Append(@, groupBy.col)]} :
         IF g.t \notin {"IDENTIFIER", "DIGIT"}
         THEN Fail(g, Err("INVALID_GROUP_BY", g.l))
         \* Check if the column exists as field.
         ELSE IF ~groupBy.ok
         THEN Fail(g, ErrWrap("INVALID_GROUP_BY", Err("UNKNOWN_COLUMN", g.l)))
         ELSE IF c.t # "COMMA"
         THEN Goto(unscan(c), s, "order")
         ELSE Goto(c, s, "groupBy")

\* parseSelect: we may see a "ORDER" keyword.
parseSelectOrder ==
    /\ pc = "order"
    /\ ClauseBy("ORDER", "INVALID_ORDER_BY", "orderBy", "limit")

\* parseSelect, one turn of the loop over the fields used to order.
parseSelectOrderBy ==
    /\ pc = "orderBy"
    /\ \E g \in {scanIgnoreWhitespace(src, p)} :
       \E column \in {searchColumn(stmt.Fields, g.l)} :
       \* Then, we may find a DESC or ASC keywords.
       \E d \in {scanIgnoreWhitespace(src, g)} :
       \E c \in {scanIgnoreWhitespace(src, IF d.t \in {"DESC", "ASC"} THEN d ELSE unscan(d))} :
       \E s \in {[stmt EXCEPT !.OrderBy =
                    Append(@, Ordering(column.col, d.t = "DESC"))]} :
         IF g.t \notin {"IDENTIFIER", "DIGIT"}
         THEN Fail(g, Err("INVALID_ORDER_BY", g.l))
         \* Check if the column exists as field.
         ELSE IF ~column.ok
         THEN Fail(g, Err("UNKNOWN_COLUMN", g.l))
         ELSE IF c.t # "COMMA"
         THEN Goto(unscan(c), s, "limit")
         ELSE Goto(c, s, "orderBy")

\* A variant of limitOffset that takes the first number for the row count and
\* the second for the offset.
limitSwapped(s, offset, rowCount) ==
    [s EXCEPT !.WithRowCount = TRUE, !.Offset = rowCount, !.RowCount = offset]

\* LIMIT with one number: no row count value, so the offset is finally the
\* row count.
limit(s, offset) == [s EXCEPT !.WithRowCount = TRUE, !.RowCount = offset]

\* LIMIT with two numbers: the offset, then the row count.
limitOffset(s, offset, rowCount) ==
    [s EXCEPT !.WithRowCount = TRUE, !.Offset = offset, !.RowCount = rowCount]

\* parseSelect: we may see a "LIMIT" keyword, with one or two numbers.
parseSelectLimit ==
    /\ pc = "limit"
    /\ \E k \in {scanIgnoreWhitespace(src, p)} :
       \E n \in {scanIgnoreWhitespace(src, k)} :
       \* If the next token is a comma then we should get the row count.
       \E c \in {scanIgnoreWhitespace(src, n)} :
       \E m \in {scanIgnoreWhitespace(src, c)} :
         IF k.t # "LIMIT"
         THEN Goto(unscan(k), stmt, "ending")
         ELSE IF n.t # "DIGIT"
         THEN Fail(n, Err("INVALID_LIMIT", n.l))
         ELSE IF c.t # "COMMA"
         \* No row count value, so the offset is finally the row count.
         THEN Goto(unscan(c), limit(stmt, Atoi(n.l)), "ending")
         ELSE IF m.t # "DIGIT"
         THEN Fail(m, Err("INVALID_LIMIT", BadVerbZero))
         ELSE Goto(m, limitOffset(stmt, Atoi(n.l), Atoi(m.l)), "ending")

\* A variant of parseSelectEnding in which parseCreateView, its source query
\* returned, scans the end of the query for the view statement as well.
parseSelectEndingTwice ==
    /\ pc = "ending"
    /\ \E e \in {scanQueryEnding(src, p, stmt)} :
       \E o \in {scanQueryEnding(src, e.p, [view EXCEPT !.View = e.val])} :
         IF e.err # NoErr
         THEN Fail(e.p, e.err)
         ELSE IF view.kind = "nil"
         THEN Return(e.p, e.val)
         ELSE IF o.err # NoErr
         THEN Fail(o.p, o.err)
         ELSE Return(o.p, o.val)

\* parseSelect: finally, we should find the end of the query; the statement
\* is returned, to parseCreateView as the source query of its view.
parseSelectEnding ==
    /\ pc = "ending"
    /\ \E e \in {scanQueryEnding(src, p, stmt)} :
         IF e.err # NoErr
         THEN Fail(e.p, e.err)
         ELSE IF view.kind # "nil"
         THEN Return(e.p, [view EXCEPT !.View = e.val])
         ELSE Return(e.p, e.val)

(***************************************************************************)
(* Formatter                                                               *)
(***************************************************************************)

\* The words String writes.
kwSELECT == <<"S", "E", "L", "E", "C", "T">>

kwFROM == <<"F", "R", "O", "M">>

kwWHERE == <<"W", "H", "E", "R", "E">>

kwAND == <<"A", "N", "D">>

kwDURING == <<"D", "U", "R", "I", "N", "G">>

\* strconv.Quote on one rune: the escape of a double quote, of a backslash
\* and of the control runes, any other rune as it is.
QuoteRune(r) ==
    CASE r = "\"" -> <<"\\", "\"">>
      [] r = "\\" -> <<"\\", "\\">>
      [] r = "\n" -> <<"\\", "n">>
      [] r = "\t" -> <<"\\", "t">>
      [] r = eof  -> <<"\\", "x", "0", "0">>
      [] OTHER    -> <<r>>

RECURSIVE QuoteRunes(_)
QuoteRunes(s) == IF s = <<>> THEN <<>> ELSE QuoteRune(s[1]) \o QuoteRunes(Tail(s))

\* strconv.Quote: the double-quoted Go string literal of s.
Quote(s) == <<"\"">> \o QuoteRunes(s) \o <<"\"">>

\* The texts of s, the first after the text `lead`, the others after `sep`: the loops of String
\* that write a separator before every element but the first.
RECURSIVE Joined(_, _, _)
Joined(s, lead, sep) ==
    IF s = <<>> THEN <<>>
    ELSE lead \o s[1] \o Joined(Tail(s), sep, sep)

\* A variant of String that writes the alias of a field that has one, and
\* no condition nor date range.
StringAliased(s) ==
    IF Len(s.Fields) = 0 \/ s.TableName = <<>> THEN <<>>
    ELSE kwSELECT \o <<" ">>
         \o Joined([i \in DOMAIN s.Fields |->
                      IF s.Fields[i].ColumnAlias # <<>>
                      THEN s.Fields[i].ColumnAlias ELSE s.Fields[i].ColumnName],
                   <<>>, <<",", " ">>)
         \o <<" ">> \o kwFROM \o <<" ">> \o s.TableName

\* A variant of formatValue that writes every value as a quoted string,
\* flagged literal or not.
formatValueQuoted(c) ==
    LET shown == [y \in DOMAIN c.Value |-> <<" ">> \o Quote(c.Value[y])]
    IN  IF Len(c.Value) > 1
        THEN <<" ", "[">> \o Joined(shown, <<>>, <<" ", ",">>) \o <<" ", "]">>
        ELSE shown[1]

\* The value of a condition as String writes it.
formatValue(c) ==
    LET shown == [y \in DOMAIN c.Value |->
                    <<" ">> \o (IF c.IsValueLiteral THEN c.Value[y]
                                ELSE Quote(c.Value[y]))]
    IN  IF Len(c.Value) > 1
        THEN <<" ", "[">> \o Joined(shown, <<>>, <<" ", ",">>) \o <<" ", "]">>
        ELSE shown[1]

formatCondition(c) == c.ColumnName \o <<" ">> \o c.Operator \o formatValue(c)

\* String formats a SelectStmt as expected by Google Adwords.
String(s) ==
    IF Len(s.Fields) = 0 \/ s.TableName = <<>> THEN <<>>
    ELSE kwSELECT \o <<" ">>
         \o Joined([i \in DOMAIN s.Fields |-> s.Fields[i].ColumnName],
                   <<>>, <<",", " ">>)
         \o <<" ">> \o kwFROM \o <<" ">> \o s.TableName
         \o (IF Len(s.Where) > 0
             THEN <<" ">> \o kwWHERE \o <<" ">>
                  \o Joined([i \in DOMAIN s.Where |-> formatCondition(s.Where[i])],
                            <<>>, <<" ">> \o kwAND \o <<" ">>)
             ELSE <<>>)
         \o (IF Len(s.During) > 0
             THEN <<" ">> \o kwDURING \o <<" ">>
                  \o (IF Len(s.During) = 2
                      THEN s.During[1] \o <<",">> \o s.During[2]
                      ELSE s.During[1])
             ELSE <<>>)

(***************************************************************************)
(* Texts given to the parser                                               *)
(***************************************************************************)

\* How many statements a text given to Parse holds at most.
MaxStatements == 2

\* How many fields, conditions, dates and column references a clause of a
\* SELECT given to the parser holds at most.
MaxFields == 2

MaxConditions == 2

MaxRange == 3

MaxRefs == 2

\* The sequences of 1 to n, and of 0 to n, elements of S.
SeqsUpTo(S, n) == UNION {[1..k -> S] : k \in 1..n}

SeqsFrom0(S, n) == UNION {[1..k -> S] : k \in 0..n}

\* SELECT a FROM t
stmtText1 == <<"S", "E", "L", "E", "C", "T", " ", "a", " ", "F", "R", "O", "M", " ", "t">>

\* DESC t
stmtText2 == <<"D", "E", "S", "C", " ", "t">>

\* SHOW TABLES
stmtText3 == <<"S", "H", "O", "W", " ", "T", "A", "B", "L", "E", "S">>

\* CREATE VIEW v AS SELECT a FROM t
stmtText4 ==
    <<"C", "R", "E", "A", "T", "E", " ", "V", "I", "E", "W", " ", "v", " ", "A", "S", " ", "S",
      "E", "L", "E", "C", "T", " ", "a", " ", "F", "R", "O", "M", " ", "t">>

\* SELECT a
stmtText5 == <<"S", "E", "L", "E", "C", "T", " ", "a">>

StatementTexts == {stmtText1, stmtText2, stmtText3, stmtText4, stmtText5}

\* ;
separator1 == <<";">>

\* \G 
separator2 == <<"\\", "G", " ">>

Separators == {separator1, separator2}

lastEnding1 == <<>>

\* ;
lastEnding2 == <<";">>

\* \G
lastEnding3 == <<"\\", "G">>

LastEndings == {lastEnding1, lastEnding2, lastEnding3}

\* a
fieldText1 == <<"a">>

\* *
fieldText2 == <<"*">>

\* DISTINCT b
fieldText3 == <<"D", "I", "S", "T", "I", "N", "C", "T", " ", "b">>

\* SUM(a)
fieldText4 == <<"S", "U", "M", "(", "a", ")">>

fieldText5 == <<"C", "o", "u", "n", "t", "(", "*", ")">>

\* MAX(DISTINCT a)
fieldText6 == <<"M", "A", "X", "(", "D", "I", "S", "T", "I", "N", "C", "T", " ", "a", ")">>

\* SUM(a x
fieldText7 == <<"S", "U", "M", "(", "a", " ", "x">>

\* a AS x
fieldText8 == <<"a", " ", "A", "S", " ", "x">>

\* b y
fieldText9 == <<"b", " ", "y">>

\* min(b) AS m
fieldText10 == <<"m", "i", "n", "(", "b", ")", " ", "A", "S", " ", "m">>

\* AVG(b z) y
fieldText11 == <<"A", "V", "G", "(", "b", " ", "z", ")", " ", "y">>

\* MIN(1)
fieldText12 == <<"M", "I", "N", "(", "1", ")">>

\* rv(a)
fieldText13 == <<"r", "v", "(", "a", ")">>

fieldText14 == <<"A", "V", "G", "(", "*", ")">>

\* SUM (a)
fieldText15 == <<"S", "U", "M", " ", "(", "a", ")">>

\* !
fieldText16 == <<"!">>

FieldTexts == {fieldText1, fieldText2, fieldText3, fieldText4, fieldText5, fieldText6, fieldText7, fieldText8, fieldText9, fieldText10, fieldText11, fieldText12, fieldText13, fieldText14, fieldText15, fieldText16}

\* c
moreFieldText1 == <<"c">>

\* MAX(1 z
moreFieldText2 == <<"M", "A", "X", "(", "1", " ", "z">>

\* b x
moreFieldText3 == <<"b", " ", "x">>

MoreFieldTexts == {moreFieldText1, moreFieldText2, moreFieldText3}

\* a = 1
conditionText1 == <<"a", " ", "=", " ", "1">>

\* a = 'x'
conditionText2 == <<"a", " ", "=", " ", "'", "x", "'">>

\* b != "y z"
conditionText3 == <<"b", " ", "!", "=", " ", "\"", "y", " ", "z", "\"">>

\* c >= 1.5
conditionText4 == <<"c", " ", ">", "=", " ", "1", ".", "5">>

\* a IN ["x","y"]
conditionText5 == <<"a", " ", "I", "N", " ", "[", "\"", "x", "\"", ",", "\"", "y", "\"", "]">>

\* a IN [x, y]
conditionText6 == <<"a", " ", "I", "N", " ", "[", "x", ",", " ", "y", "]">>

\* a NOT_IN ['x']
conditionText7 == <<"a", " ", "N", "O", "T", "_", "I", "N", " ", "[", "'", "x", "'", "]">>

\* a = 'q"\\'
conditionText8 == <<"a", " ", "=", " ", "'", "q", "\"", "\\", "\\", "'">>

\* a ! 1
conditionText9 == <<"a", " ", "!", " ", "1">>

\* a = x
conditionText10 == <<"a", " ", "=", " ", "x">>

ConditionTexts == {conditionText1, conditionText2, conditionText3, conditionText4, conditionText5, conditionText6, conditionText7, conditionText8, conditionText9, conditionText10}

\* b < 2
moreConditionText1 == <<"b", " ", "<", " ", "2">>

\* c CONTAINS 'w'
moreConditionText2 == <<"c", " ", "C", "O", "N", "T", "A", "I", "N", "S", " ", "'", "w", "'">>

MoreConditionTexts == {moreConditionText1, moreConditionText2}

\* TODAY
dateText1 == <<"T", "O", "D", "A", "Y">>

\* 20161224
dateText2 == <<"2", "0", "1", "6", "1", "2", "2", "4">>

\* 20160229
dateText3 == <<"2", "0", "1", "6", "0", "2", "2", "9">>

\* 20170229
dateText4 == <<"2", "0", "1", "7", "0", "2", "2", "9">>

\* RV
dateText5 == <<"R", "V">>

DateTexts == {dateText1, dateText2, dateText3, dateText4, dateText5}

\* a
fieldListText1 == <<"a">>

\* a, b AS x
fieldListText2 == <<"a", ",", " ", "b", " ", "A", "S", " ", "x">>

\* x, a x, MAX(b z
fieldListText3 == <<"x", ",", " ", "a", " ", "x", ",", " ", "M", "A", "X", "(", "b", " ", "z">>

FieldListTexts == {fieldListText1, fieldListText2, fieldListText3}

\* a
refText1 == <<"a">>

\* x
refText2 == <<"x">>

\* 1
refText3 == <<"1">>

\* 2
refText4 == <<"2">>

\* 0
refText5 == <<"0">>

\* zz
refText6 == <<"z", "z">>

RefTexts == {refText1, refText2, refText3, refText4, refText5, refText6}

directionText1 == <<>>

\*  DESC
directionText2 == <<" ", "D", "E", "S", "C">>

\*  ASC
directionText3 == <<" ", "A", "S", "C">>

DirectionTexts == {directionText1, directionText2, directionText3}

limitText1 == <<>>

\*  LIMIT 5
limitText2 == <<" ", "L", "I", "M", "I", "T", " ", "5">>

\*  LIMIT 15, 5
limitText3 == <<" ", "L", "I", "M", "I", "T", " ", "1", "5", ",", " ", "5">>

\*  LIMIT x
limitText4 == <<" ", "L", "I", "M", "I", "T", " ", "x">>

\*  LIMIT 5, x
limitText5 == <<" ", "L", "I", "M", "I", "T", " ", "5", ",", " ", "x">>

\*  LIMIT
limitText6 == <<" ", "L", "I", "M", "I", "T">>

LimitTexts == {limitText1, limitText2, limitText3, limitText4, limitText5, limitText6}

endingText1 == <<>>

\* ;
endingText2 == <<";">>

\* \G
endingText3 == <<"\\", "G">>

\*  zz
endingText4 == <<" ", "z", "z">>

EndingTexts == {endingText1, endingText2, endingText3, endingText4}

\* DESC t
describeText1 == <<"D", "E", "S", "C", " ", "t">>

\* DESCRIBE FULL t c\G
describeText2 ==
    <<"D", "E", "S", "C", "R", "I", "B", "E", " ", "F", "U", "L", "L", " ", "t", " ", "c",
      "\\", "G">>

\* desc t c;
describeText3 == <<"d", "e", "s", "c", " ", "t", " ", "c", ";">>

\* DESC !
describeText4 == <<"D", "E", "S", "C", " ", "!">>

\* SELECT
describeText5 == <<"S", "E", "L", "E", "C", "T">>

\* DESC t c d
describeText6 == <<"D", "E", "S", "C", " ", "t", " ", "c", " ", "d">>

\* The keyword of DESCRIBE as it may be written.
DescribeWords == { <<"D", "E", "S", "C">>, <<"D", "E", "S", "C", "R", "I", "B", "E">>,
                   <<"d", "e", "s", "c">> }

\* Table names, and tokens in their place: 1, *, !, FROM, a left parenthesis,
\* nothing.
TableNames == { <<"t">>, <<"T", "a", "b", "_", "1">> }

badTableText1 == <<"1">>

badTableText2 == <<"*">>

badTableText3 == <<"!">>

badTableText4 == <<"F", "R", "O", "M">>

badTableText5 == <<"(">>

badTableText6 == <<>>

BadTableTexts ==
    {badTableText1, badTableText2, badTableText3, badTableText4, badTableText5,
     badTableText6}

\* DESC|DESCRIBE [FULL] table [column], the column <<>> when there is none.
DescribeText(word, full, table, column) ==
    word \o (IF full THEN <<" ", "F", "U", "L", "L">> ELSE <<>>) \o <<" ">> \o table
        \o (IF column = <<>> THEN <<>> ELSE <<" ">> \o column)

DescribeCalls ==
    { DescribeText(word, full, table, column) :
        word \in DescribeWords, full \in BOOLEAN,
        table \in TableNames \cup BadTableTexts, column \in {<<>>, <<"c">>} }

\* DESC t c x y
describeText7 == <<"D", "E", "S", "C", " ", "t", " ", "c", " ", "x", " ", "y">>

DescribeTexts == DescribeCalls \cup {describeText7, describeText1, describeText2, describeText3, describeText4, describeText5, describeText6}

\* SHOW TABLES
showText1 == <<"S", "H", "O", "W", " ", "T", "A", "B", "L", "E", "S">>

\* SHOW FULL TABLES\G
showText2 ==
    <<"S", "H", "O", "W", " ", "F", "U", "L", "L", " ", "T", "A", "B", "L", "E", "S", "\\",
      "G">>

\* SHOW TABLES LIKE 'C%'\G
showText3 ==
    <<"S", "H", "O", "W", " ", "T", "A", "B", "L", "E", "S", " ", "L", "I", "K", "E", " ", "'",
      "C", "%", "'", "\\", "G">>

\* SHOW TABLES LIKE '%R'
showText4 ==
    <<"S", "H", "O", "W", " ", "T", "A", "B", "L", "E", "S", " ", "L", "I", "K", "E", " ", "'",
      "%", "R", "'">>

\* SHOW TABLES LIKE '%N%'
showText5 ==
    <<"S", "H", "O", "W", " ", "T", "A", "B", "L", "E", "S", " ", "L", "I", "K", "E", " ", "'",
      "%", "N", "%", "'">>

\* SHOW TABLES LIKE 'L';
showText6 ==
    <<"S", "H", "O", "W", " ", "T", "A", "B", "L", "E", "S", " ", "L", "I", "K", "E", " ", "'",
      "L", "'", ";">>

\* SHOW TABLES WITH c;
showText7 ==
    <<"S", "H", "O", "W", " ", "T", "A", "B", "L", "E", "S", " ", "W", "I", "T", "H", " ", "c",
      ";">>

\* SHOW TABLES WITH "c";
showText8 ==
    <<"S", "H", "O", "W", " ", "T", "A", "B", "L", "E", "S", " ", "W", "I", "T", "H", " ",
      "\"", "c", "\"", ";">>

\* SHOW TABLES LIKE rv
showText9 ==
    <<"S", "H", "O", "W", " ", "T", "A", "B", "L", "E", "S", " ", "L", "I", "K", "E", " ", "r",
      "v">>

\* SHOW TABLES L
showText10 == <<"S", "H", "O", "W", " ", "T", "A", "B", "L", "E", "S", " ", "L">>

\* SHOW
showText11 == <<"S", "H", "O", "W">>

\* SELECT
showText12 == <<"S", "E", "L", "E", "C", "T">>

\* SHOW TABLES LIKE 1
showText13 ==
    <<"S", "H", "O", "W", " ", "T", "A", "B", "L", "E", "S", " ", "L", "I", "K", "E", " ", "1">>

\* SHOW TABLES LIKE 'C%'
showText14 ==
    <<"S", "H", "O", "W", " ", "T", "A", "B", "L", "E", "S", " ", "L", "I", "K", "E", " ", "'",
      "C", "%", "'">>

\* SHOW TABLES LIKE "L"
showText15 ==
    <<"S", "H", "O", "W", " ", "T", "A", "B", "L", "E", "S", " ", "L", "I", "K", "E", " ",
      "\"", "L", "\"">>

\* What follows LIKE or WITH: rv, 1, *, 1.5, FROM, a left parenthesis,
\* nothing, "c", 'C%'.
patternText1 == <<"r", "v">>

patternText2 == <<"1">>

patternText3 == <<"*">>

patternText4 == <<"1", ".", "5">>

patternText5 == <<"F", "R", "O", "M">>

patternText6 == <<"(">>

patternText7 == <<>>

patternText8 == <<"\"", "c", "\"">>

patternText9 == <<"'", "C", "%", "'">>

PatternTexts ==
    {patternText1, patternText2, patternText3, patternText4, patternText5, patternText6,
     patternText7, patternText8, patternText9}

\* SHOW [FULL] TABLES, LIKE or WITH, and what follows it.
ShowClauseText(full, clause, pat) ==
    <<"S", "H", "O", "W", " ">> \o (IF full THEN <<"F", "U", "L", "L", " ">> ELSE <<>>)
        \o <<"T", "A", "B", "L", "E", "S", " ">> \o clause \o <<" ">> \o pat

ShowClauseTexts ==
    { ShowClauseText(full, clause, pat) :
        full \in BOOLEAN,
        clause \in { <<"L", "I", "K", "E">>, <<"W", "I", "T", "H">> },
        pat \in PatternTexts }

ShowTexts == ShowClauseTexts \cup {showText1, showText2, showText3, showText4, showText5, showText6, showText7, showText8, showText9, showText10, showText11, showText12, showText13, showText14, showText15}

\* CREATE VIEW v AS SELECT a FROM t
createViewText1 ==
    <<"C", "R", "E", "A", "T", "E", " ", "V", "I", "E", "W", " ", "v", " ", "A", "S", " ", "S",
      "E", "L", "E", "C", "T", " ", "a", " ", "F", "R", "O", "M", " ", "t">>

\* CREATE OR REPLACE VIEW v (c, d) AS SELECT a, b FROM t\G
createViewText2 ==
    <<"C", "R", "E", "A", "T", "E", " ", "O", "R", " ", "R", "E", "P", "L", "A", "C", "E", " ",
      "V", "I", "E", "W", " ", "v", " ", "(", "c", ",", " ", "d", ")", " ", "A", "S", " ", "S",
      "E", "L", "E", "C", "T", " ", "a", ",", " ", "b", " ", "F", "R", "O", "M", " ", "t",
      "\\", "G">>

\* CREATE VIEW v (c, d,) AS SELECT a, b FROM t;
createViewText3 ==
    <<"C", "R", "E", "A", "T", "E", " ", "V", "I", "E", "W", " ", "v", " ", "(", "c", ",", " ",
      "d", ",", ")", " ", "A", "S", " ", "S", "E", "L", "E", "C", "T", " ", "a", ",", " ", "b",
      " ", "F", "R", "O", "M", " ", "t", ";">>

\* CREATE VIEW v () AS SELECT a FROM t
createViewText4 ==
    <<"C", "R", "E", "A", "T", "E", " ", "V", "I", "E", "W", " ", "v", " ", "(", ")", " ", "A",
      "S", " ", "S", "E", "L", "E", "C", "T", " ", "a", " ", "F", "R", "O", "M", " ", "t">>

\* CREATE VIEW v (c,) AS SELECT a, b FROM t
createViewText5 ==
    <<"C", "R", "E", "A", "T", "E", " ", "V", "I", "E", "W", " ", "v", " ", "(", "c", ",", ")",
      " ", "A", "S", " ", "S", "E", "L", "E", "C", "T", " ", "a", ",", " ", "b", " ", "F", "R",
      "O", "M", " ", "t">>

\* CREATE VIEW v (1) AS SELECT a FROM t
createViewText6 ==
    <<"C", "R", "E", "A", "T", "E", " ", "V", "I", "E", "W", " ", "v", " ", "(", "1", ")", " ",
      "A", "S", " ", "S", "E", "L", "E", "C", "T", " ", "a", " ", "F", "R", "O", "M", " ", "t">>

\* CREATE OR VIEW v AS SELECT a FROM t
createViewText7 ==
    <<"C", "R", "E", "A", "T", "E", " ", "O", "R", " ", "V", "I", "E", "W", " ", "v", " ", "A",
      "S", " ", "S", "E", "L", "E", "C", "T", " ", "a", " ", "F", "R", "O", "M", " ", "t">>

\* CREATE v
createViewText8 == <<"C", "R", "E", "A", "T", "E", " ", "v">>

\* CREATE VIEW !
createViewText9 == <<"C", "R", "E", "A", "T", "E", " ", "V", "I", "E", "W", " ", "!">>

\* CREATE VIEW v SELECT a FROM t
createViewText10 ==
    <<"C", "R", "E", "A", "T", "E", " ", "V", "I", "E", "W", " ", "v", " ", "S", "E", "L", "E",
      "C", "T", " ", "a", " ", "F", "R", "O", "M", " ", "t">>

\* CREATE VIEW v AS SELECT a
createViewText11 ==
    <<"C", "R", "E", "A", "T", "E", " ", "V", "I", "E", "W", " ", "v", " ", "A", "S", " ", "S",
      "E", "L", "E", "C", "T", " ", "a">>

\* SELECT
createViewText12 == <<"S", "E", "L", "E", "C", "T">>

\* CREATE VIEW v (c) AS SELECT a FROM t
createViewText13 ==
    <<"C", "R", "E", "A", "T", "E", " ", "V", "I", "E", "W", " ", "v", " ", "(", "c", ")",
      " ", "A", "S", " ", "S", "E", "L", "E", "C", "T", " ", "a", " ", "F", "R", "O", "M",
      " ", "t">>

\* CREATE OR REPLACE VIEW v (c, d) AS SELECT a, b FROM t
createViewText14 ==
    <<"C", "R", "E", "A", "T", "E", " ", "O", "R", " ", "R", "E", "P", "L", "A", "C", "E",
      " ", "V", "I", "E", "W", " ", "v", " ", "(", "c", ",", " ", "d", ")", " ", "A", "S",
      " ", "S", "E", "L", "E", "C", "T", " ", "a", ",", " ", "b", " ", "F", "R", "O", "M",
      " ", "t">>

\* The lists of columns the claim has refused: empty, with an empty entry,
\* with an entry that is no name, and with two names and no comma.
emptyListText == <<"(", ")">>

\* (c,)
emptyEntryText1 == <<"(", "c", ",", ")">>

\* (c, d, )
emptyEntryText2 == <<"(", "c", ",", " ", "d", ",", " ", ")">>

\* (,c)
emptyEntryText3 == <<"(", ",", "c", ")">>

\* (c,, d)
emptyEntryText4 == <<"(", "c", ",", ",", " ", "d", ")">>

\* (1)
noNameText1 == <<"(", "1", ")">>

\* (c, 'd')
noNameText2 == <<"(", "c", ",", " ", "'", "d", "'", ")">>

\* (c, *)
noNameText3 == <<"(", "c", ",", " ", "*", ")">>

\* (c d)
noCommaText1 == <<"(", "c", " ", "d", ")">>

\* (c, d e)
noCommaText2 == <<"(", "c", ",", " ", "d", " ", "e", ")">>

EmptyEntryTexts == {emptyEntryText1, emptyEntryText2, emptyEntryText3, emptyEntryText4}

NoNameTexts == {noNameText1, noNameText2, noNameText3}

NoCommaTexts == {noCommaText1, noCommaText2}

BadViewLists == {emptyListText} \cup EmptyEntryTexts \cup NoNameTexts \cup NoCommaTexts

\* CREATE VIEW v list AS SELECT a FROM t
ViewListText(list) ==
    <<"C", "R", "E", "A", "T", "E", " ", "V", "I", "E", "W", " ", "v", " ">> \o list
        \o <<" ", "A", "S", " ", "S", "E", "L", "E", "C", "T", " ", "a", " ", "F", "R", "O",
             "M", " ", "t">>

BadViewListTexts == { ViewListText(l) : l \in BadViewLists }

CreateViewTexts == BadViewListTexts \cup {createViewText1, createViewText2, createViewText3, createViewText4, createViewText5, createViewText6, createViewText7, createViewText8, createViewText9, createViewText10, createViewText11, createViewText12, createViewText13, createViewText14}

otherText1 == <<>>

otherText2 == <<" ", " ">>

\* DELETE
otherText3 == <<"D", "E", "L", "E", "T", "E">>

\* SELECT a FROM t GROUP 1
otherText4 ==
    <<"S", "E", "L", "E", "C", "T", " ", "a", " ", "F", "R", "O", "M", " ", "t", " ", "G", "R",
      "O", "U", "P", " ", "1">>

\* SELECT a FROM t ORDER 1
otherText5 ==
    <<"S", "E", "L", "E", "C", "T", " ", "a", " ", "F", "R", "O", "M", " ", "t", " ", "O", "R",
      "D", "E", "R", " ", "1">>

\* SELECT a FROM t DURING
otherText6 ==
    <<"S", "E", "L", "E", "C", "T", " ", "a", " ", "F", "R", "O", "M", " ", "t", " ", "D", "U",
      "R", "I", "N", "G">>

\* SELECT a FROM
otherText7 == <<"S", "E", "L", "E", "C", "T", " ", "a", " ", "F", "R", "O", "M">>

\* SELECT a FROM t WHERE
otherText8 ==
    <<"S", "E", "L", "E", "C", "T", " ", "a", " ", "F", "R", "O", "M", " ", "t", " ", "W", "H",
      "E", "R", "E">>

\* SELECT a, FROM t
otherText9 == <<"S", "E", "L", "E", "C", "T", " ", "a", ",", " ", "F", "R", "O", "M", " ", "t">>

\* SELECT a AS 1 FROM t
otherText10 ==
    <<"S", "E", "L", "E", "C", "T", " ", "a", " ", "A", "S", " ", "1", " ", "F", "R", "O", "M",
      " ", "t">>

\* SELECT DISTINCT 1 FROM t
otherText11 ==
    <<"S", "E", "L", "E", "C", "T", " ", "D", "I", "S", "T", "I", "N", "C", "T", " ", "1", " ",
      "F", "R", "O", "M", " ", "t">>

\* SELECT SUM(DISTINCT 1) FROM t
otherText12 ==
    <<"S", "E", "L", "E", "C", "T", " ", "S", "U", "M", "(", "D", "I", "S", "T", "I", "N", "C",
      "T", " ", "1", ")", " ", "F", "R", "O", "M", " ", "t">>

\* SELECT SUM(!) FROM t
otherText13 ==
    <<"S", "E", "L", "E", "C", "T", " ", "S", "U", "M", "(", "!", ")", " ", "F", "R", "O", "M",
      " ", "t">>

\* SELECT a <space><tab><newline>FROM t
otherText14 ==
    <<"S", "E", "L", "E", "C", "T", " ", "a", " ", "\t", "\n", "F", "R", "O", "M", " ", "t">>

OtherTexts == {otherText14, otherText1, otherText2, otherText3, otherText4, otherText5, otherText6, otherText7, otherText8, otherText9, otherText10, otherText11, otherText12, otherText13}

wSELECT == <<"S", "E", "L", "E", "C", "T", " ">>

wFROM == <<" ", "F", "R", "O", "M", " ", "t">>

wWHERE == <<" ", "W", "H", "E", "R", "E", " ">>

wAND == <<" ", "A", "N", "D", " ">>

wDURING == <<" ", "D", "U", "R", "I", "N", "G", " ">>

wGROUPBY == <<" ", "G", "R", "O", "U", "P", " ", "B", "Y", " ">>

wORDERBY == <<" ", "O", "R", "D", "E", "R", " ", "B", "Y", " ">>

wComma == <<",", " ">>

wRangeComma == <<",">>



\* Statements ended by a separator, the last one by an ending or nothing.
RECURSIVE Terminated(_)
Terminated(parts) ==
    IF parts = <<>> THEN <<>>
    ELSE parts[1][1] \o parts[1][2] \o Terminated(Tail(parts))

ParseText(head, last) == Terminated(head) \o last[1] \o last[2]

ParseTexts ==
    { ParseText(head, last) :
        head \in SeqsFrom0(StatementTexts \X Separators, MaxStatements - 1),
        last \in StatementTexts \X LastEndings }

\* SELECT texts; each family varies one clause.
FieldsText(f, more) == wSELECT \o f \o Joined(more, wComma, wComma) \o wFROM

FieldsTexts ==
    { FieldsText(f, more) :
        f \in FieldTexts, more \in SeqsFrom0(MoreFieldTexts, MaxFields - 1) }

\* Fields that call a function that is none: rv(a), Sumx(a), su(, f().
noFunctionText1 == <<"r", "v", "(", "a", ")">>

noFunctionText2 == <<"S", "u", "m", "x", "(", "a", ")">>

noFunctionText3 == <<"s", "u", "(">>

noFunctionText4 == <<"f", "(", ")">>

NoFunctionTexts == {noFunctionText1, noFunctionText2, noFunctionText3, noFunctionText4}

\* The name of the function such a field calls.
CalledName(f) == SubSeq(f, 1, (CHOOSE i \in DOMAIN f : f[i] = "(" ) - 1)

\* Fields that start with a token that is no field: !, 1, (a), a comma, =, 1.5.
noFieldText1 == <<"!">>

noFieldText2 == <<"1">>

noFieldText3 == <<"(", "a", ")">>

noFieldText4 == <<",">>

noFieldText5 == <<"=">>

noFieldText6 == <<"1", ".", "5">>

NoFieldTexts ==
    {noFieldText1, noFieldText2, noFieldText3, noFieldText4, noFieldText5, noFieldText6}

\* The literal of the first token of such a field.
FirstLiteral(f) == IF f = noFieldText6 THEN f ELSE <<f[1]>>

\* SELECT, nothing or fields, such a field, and FROM t or the end of the text.
BadFieldText(lead, f, e) == wSELECT \o Joined(lead, <<>>, wComma)
                              \o (IF lead = <<>> THEN <<>> ELSE wComma) \o f \o e

\* The fields before it: none, c, b x.
FieldLeads == { <<>>, <<moreFieldText1>>, <<moreFieldText3>> }

BadFieldTexts ==
    { BadFieldText(lead, f, e) :
        lead \in FieldLeads,
        f \in NoFunctionTexts \cup NoFieldTexts,
        e \in {<<>>, wFROM} }

\* b AS x
aliasedFieldText == <<"b", " ", "A", "S", " ", "x">>

\* The fields before an aggregate call of a position: none, c, and c, b AS x.
PositionLeads == { <<>>, <<moreFieldText1>>, <<moreFieldText1, aliasedFieldText>> }

\* The positions given to the call: from 0 to one more than the fields before.
Positions == <<"0", "1", "2", "3">>

\* What follows the position: the right parenthesis, or a name in its place.
wClosed == <<")">>

wOpen == <<" ", "z">>

\* SELECT lead, SUM(k) FROM t, and SELECT lead, SUM(k z FROM t
PositionText(lead, k, close) ==
    wSELECT \o Joined(lead, <<>>, wComma) \o (IF lead = <<>> THEN <<>> ELSE wComma)
        \o <<"S", "U", "M", "(", k>> \o close \o wFROM

PositionCalls ==
    { [lead |-> c[1], k |-> c[2], close |-> c[3],
       text |-> PositionText(c[1], Positions[c[2] + 1], c[3])] :
        c \in PositionLeads \X (0..3) \X {wClosed, wOpen} }

PositionTexts == { c.text : c \in PositionCalls }

\* The names of the aggregate functions, in several cases of letters.
CountNames ==
    { <<"C", "O", "U", "N", "T">>, <<"c", "o", "u", "n", "t">>, <<"C", "o", "u", "n", "T">> }

OtherFunctionNames ==
    { <<"A", "V", "G">>, <<"a", "v", "g">>, <<"M", "A", "X">>, <<"M", "a", "x">>,
      <<"M", "I", "N">>, <<"m", "i", "n">>, <<"S", "U", "M">>, <<"s", "u", "M">> }

\* SELECT name(*) FROM t, and SELECT name(* z FROM t
AsteriskText(name, close) ==
    wSELECT \o name \o <<"(", "*">> \o close \o wFROM

AsteriskCalls ==
    { [name |-> c[1], close |-> c[2], text |-> AsteriskText(c[1], c[2])] :
        c \in (CountNames \cup OtherFunctionNames) \X {wClosed, wOpen} }

AsteriskTexts == { c.text : c \in AsteriskCalls }

WhereText(c, more, e) ==
    wSELECT \o fieldText1 \o wFROM \o wWHERE \o c \o Joined(more, wAND, wAND) \o e

WhereTexts ==
    { WhereText(c, more, e) :
        c \in ConditionTexts,
        more \in SeqsFrom0(MoreConditionTexts, MaxConditions - 1),
        e \in {endingText1, endingText2} }

\* Conditions on a bracketed list that is not well formed: a string then a
\* value literal, a value literal then a string, no right bracket after a
\* string or after a value literal, an illegal rune, a parenthesis.
badListText1 == <<"a", " ", "I", "N", " ", "[", "\"", "x", "\"", ",", " ", "y", "]">>

badListText2 == <<"a", " ", "I", "N", " ", "[", "x", ",", " ", "'", "y", "'", "]">>

badListText3 == <<"a", " ", "I", "N", " ", "[", "\"", "x", "\"">>

badListText4 == <<"a", " ", "N", "O", "T", "_", "I", "N", " ", "[", "x", ",", " ", "y">>

badListText5 == <<"a", " ", "I", "N", " ", "[", "x", ",", " ", "!", "]">>

badListText6 == <<"a", " ", "I", "N", " ", "[", "(", "x", ")", "]">>

BadListTexts ==
    {badListText1, badListText2, badListText3, badListText4, badListText5, badListText6}

\* SELECT a FROM t WHERE and such a condition, alone or after another one,
\* and what follows it.
BadListWhereText(lead, c, e) ==
    wSELECT \o fieldText1 \o wFROM \o wWHERE \o Joined(lead, <<>>, wAND)
        \o (IF lead = <<>> THEN <<>> ELSE wAND) \o c \o e

BadListWhereTexts ==
    { BadListWhereText(lead, c, e) :
        lead \in SeqsFrom0(MoreConditionTexts, MaxConditions - 1),
        c \in BadListTexts,
        e \in {<<>>, wAND \o moreConditionText1, wDURING \o dateText1} }

DuringText(d, e) ==
    wSELECT \o fieldText1 \o wFROM \o wDURING \o Joined(d, <<>>, wRangeComma) \o e

DuringTexts ==
    { DuringText(d, e) :
        d \in SeqsUpTo(DateTexts, MaxRange), e \in {endingText1, endingText3} }

GroupByTexts ==
    { wSELECT \o f \o wFROM \o wGROUPBY \o Joined(r, <<>>, wComma) :
        f \in FieldListTexts, r \in SeqsUpTo(RefTexts, MaxRefs) }

OrderByTexts ==
    { wSELECT \o f \o wFROM \o wORDERBY
        \o Joined([i \in DOMAIN r |-> r[i][1] \o r[i][2]], <<>>, wComma) :
        f \in FieldListTexts, r \in SeqsUpTo(RefTexts \X DirectionTexts, MaxRefs) }

LimitText(l, e) == wSELECT \o fieldText1 \o wFROM \o l \o e

LimitEndingTexts ==
    { LimitText(l, e) :
        l \in LimitTexts, e \in EndingTexts }

ClausesTexts ==
    { wSELECT \o fieldListText2 \o wFROM \o wWHERE \o conditionText1
        \o wDURING \o dateText1 \o wGROUPBY \o refText1 \o wORDERBY \o refText2
        \o directionText2 \o l \o e :
        l \in LimitTexts, e \in EndingTexts }

\* What follows the field list where FROM is expected: nothing, WHERE a = 1,
\* 1, t, an illegal rune.
noSourceText1 == <<>>

noSourceText2 == wWHERE \o conditionText1

noSourceText3 == <<" ", "1">>

noSourceText4 == <<" ", "t">>

noSourceText5 == <<" ", "!">>

NoSourceTexts == {noSourceText1, noSourceText2, noSourceText3, noSourceText4, noSourceText5}

\* What follows FROM where the table name is expected, without the space
\* before it: nothing, 1, WHERE, *, a comma, 1.5, FROM.
badSourceText1 == <<>>

badSourceText2 == <<"1">>

badSourceText3 == <<"W", "H", "E", "R", "E">>

badSourceText4 == <<"*">>

badSourceText5 == <<",">>

badSourceText6 == <<"1", ".", "5">>

badSourceText7 == <<"F", "R", "O", "M">>

BadSourceTexts ==
    {badSourceText1, badSourceText2, badSourceText3, badSourceText4, badSourceText5,
     badSourceText6, badSourceText7}

\* The token in place of the table name and what follows it: nothing, or a
\* WHERE clause when there is a token.
BadSourceCases ==
    { <<b, <<>> >> : b \in BadSourceTexts }
        \cup { <<b, wWHERE \o conditionText1>> : b \in BadSourceTexts \ {badSourceText1} }

\* SELECT, a field list and a source that is missing or invalid.
SourceTexts ==
    { wSELECT \o f \o n : f \in FieldListTexts, n \in NoSourceTexts }
        \cup { wSELECT \o f \o <<" ", "F", "R", "O", "M", " ">> \o c[1] \o c[2] :
                 f \in FieldListTexts, c \in BadSourceCases }

\* Field lists in which a name or an alias is that of several fields, with
\* the name and the alias each field declares.
\* a, b AS a, a
sharedText1 == <<"a", ",", " ", "b", " ", "A", "S", " ", "a", ",", " ", "a">>

\* a AS b, b
sharedText2 == <<"a", " ", "A", "S", " ", "b", ",", " ", "b">>

\* b, a AS b, b AS a
sharedText3 ==
    <<"b", ",", " ", "a", " ", "A", "S", " ", "b", ",", " ", "b", " ", "A", "S", " ", "a">>

SharedFields ==
    { [text |-> sharedText1,
       fields |-> << <<<<"a">>, <<>>>>, <<<<"b">>, <<"a">>>>, <<<<"a">>, <<>>>> >>],
      [text |-> sharedText2,
       fields |-> << <<<<"a">>, <<"b">>>>, <<<<"b">>, <<>>>> >>],
      [text |-> sharedText3,
       fields |-> << <<<<"b">>, <<>>>>, <<<<"a">>, <<"b">>>>, <<<<"b">>, <<"a">>>> >>] }

\* The references: the names a, b and c, and numbers, with the integer each
\* text parses as; 0 stands for a text that is no number.
SharedRefs ==
    { [text |-> <<"a">>, number |-> 0],
      [text |-> <<"b">>, number |-> 0],
      [text |-> <<"c">>, number |-> 0],
      [text |-> <<"1">>, number |-> 1],
      [text |-> <<"2">>, number |-> 2],
      [text |-> <<"3">>, number |-> 3],
      [text |-> <<"0", "2">>, number |-> 2],
      [text |-> <<"4">>, number |-> 4] }

\* SELECT fields FROM t GROUP BY ref, and the same with ORDER BY.
SharedCases ==
    { [clause |-> w[1], text |-> wSELECT \o f.text \o wFROM \o w[2] \o r.text,
       fields |-> f.fields, ref |-> r] :
        w \in {<<"GroupBy", wGROUPBY>>, <<"OrderBy", wORDERBY>>},
        f \in SharedFields, r \in SharedRefs }

SharedTexts == { c.text : c \in SharedCases }

SelectTexts ==
    FieldsTexts \cup WhereTexts \cup DuringTexts \cup GroupByTexts
        \cup OrderByTexts \cup LimitEndingTexts \cup ClausesTexts \cup OtherTexts
        \cup SourceTexts \cup BadListWhereTexts \cup BadFieldTexts
        \cup PositionTexts \cup AsteriskTexts \cup SharedTexts

\* One statement of each kind, followed by each terminator and by a token
\* that is none: the method that parses it, and the text.
endingText5 == <<" ", "1">>

TerminatorTexts == {endingText1, endingText2, endingText3, endingText5}

GrammarOf(text) ==
    CASE text = stmtText1 -> "parseSelect"
      [] text = stmtText2 -> "parseDescribe"
      [] text = stmtText3 -> "parseShow"
      [] text = stmtText4 -> "parseCreateView"

TerminatedCalls ==
    { [entry |-> GrammarOf(s), src |-> s \o e] :
        s \in {stmtText1, stmtText2, stmtText3, stmtText4}, e \in TerminatorTexts }

\* The keyword each method expects, as its token.
MethodKeywords ==
    [parseDescribe |-> {"DESC", "DESCRIBE"}, parseCreateView |-> {"CREATE"},
     parseSelect |-> {"SELECT"}, parseShow |-> {"SHOW"}]

\* First tokens: the keywords that open a statement, FROM, and tokens that are
\* no keyword: zz, 1, 1.5, *, !, a left parenthesis, nothing.
FirstKeywords ==
    { <<"S", "E", "L", "E", "C", "T">>, <<"D", "E", "S", "C">>,
      <<"d", "e", "s", "c", "r", "i", "b", "e">>, <<"S", "h", "o", "w">>,
      <<"C", "R", "E", "A", "T", "E">>, <<"F", "R", "O", "M">> }

FirstTokens ==
    FirstKeywords \cup { <<"z", "z">>, <<"1">>, <<"1", ".", "5">>, <<"*">>, <<"!">>, <<"(">>, <<>> }

\* The whitespace before the first token.
LeadingSpaces == { <<>>, <<" ">>, <<"\n", "\t">> }

\* Each method called on a text whose first token is not the keyword it
\* expects: the method, the text and the literal of the token.
WrongMethodCalls ==
    { [entry |-> c[1], src |-> c[2] \o c[3] \o c[4], token |-> c[3]] :
        c \in { d \in (DOMAIN MethodKeywords) \X LeadingSpaces \X FirstTokens
                         \X { <<>>, <<" ", "t">> } :
                  /\ Str(ToUpper(d[3])) \notin MethodKeywords[d[1]]
                  /\ d[3] = <<>> => d[4] = <<>> } }

\* The texts given to the scanner alone: every text of at most MaxRunes runes
\* among the two quotes, the backslash, a letter and a space.
MaxRunes == 4

ScanRunes == {"'", "\"", "\\", "a", " "}

\* The words given to the scanner: every reserved word in upper case, in
\* lower case, capitalized and in mixed case, with the token it names, and
\* words that are none, some of them a reserved word and a rune more or less.
ReservedWords ==
    { <<<<"D", "E", "S", "C", "R", "I", "B", "E">>, "DESCRIBE">>,
      <<<<"d", "e", "s", "c", "r", "i", "b", "e">>, "DESCRIBE">>,
      <<<<"D", "e", "s", "c", "r", "i", "b", "e">>, "DESCRIBE">>,
      <<<<"d", "E", "s", "C", "r", "I", "b", "E">>, "DESCRIBE">>,
      <<<<"S", "E", "L", "E", "C", "T">>, "SELECT">>,
      <<<<"s", "e", "l", "e", "c", "t">>, "SELECT">>,
      <<<<"S", "e", "l", "e", "c", "t">>, "SELECT">>,
      <<<<"s", "E", "l", "E", "c", "T">>, "SELECT">>,
      <<<<"C", "R", "E", "A", "T", "E">>, "CREATE">>,
      <<<<"c", "r", "e", "a", "t", "e">>, "CREATE">>,
      <<<<"C", "r", "e", "a", "t", "e">>, "CREATE">>,
      <<<<"c", "R", "e", "A", "t", "E">>, "CREATE">>,
      <<<<"R", "E", "P", "L", "A", "C", "E">>, "REPLACE">>,
      <<<<"r", "e", "p", "l", "a", "c", "e">>, "REPLACE">>,
      <<<<"R", "e", "p", "l", "a", "c", "e">>, "REPLACE">>,
      <<<<"r", "E", "p", "L", "a", "C", "e">>, "REPLACE">>, <<<<"V", "I", "E", "W">>, "VIEW">>,
      <<<<"v", "i", "e", "w">>, "VIEW">>, <<<<"V", "i", "e", "w">>, "VIEW">>,
      <<<<"v", "I", "e", "W">>, "VIEW">>, <<<<"S", "H", "O", "W">>, "SHOW">>,
      <<<<"s", "h", "o", "w">>, "SHOW">>, <<<<"S", "h", "o", "w">>, "SHOW">>,
      <<<<"s", "H", "o", "W">>, "SHOW">>, <<<<"F", "U", "L", "L">>, "FULL">>,
      <<<<"f", "u", "l", "l">>, "FULL">>, <<<<"F", "u", "l", "l">>, "FULL">>,
      <<<<"f", "U", "l", "L">>, "FULL">>, <<<<"T", "A", "B", "L", "E", "S">>, "TABLES">>,
      <<<<"t", "a", "b", "l", "e", "s">>, "TABLES">>,
      <<<<"T", "a", "b", "l", "e", "s">>, "TABLES">>,
      <<<<"t", "A", "b", "L", "e", "S">>, "TABLES">>,
      <<<<"D", "I", "S", "T", "I", "N", "C", "T">>, "DISTINCT">>,
      <<<<"d", "i", "s", "t", "i", "n", "c", "t">>, "DISTINCT">>,
      <<<<"D", "i", "s", "t", "i", "n", "c", "t">>, "DISTINCT">>,
      <<<<"d", "I", "s", "T", "i", "N", "c", "T">>, "DISTINCT">>, <<<<"A", "S">>, "AS">>,
      <<<<"a", "s">>, "AS">>, <<<<"A", "s">>, "AS">>, <<<<"a", "S">>, "AS">>,
      <<<<"F", "R", "O", "M">>, "FROM">>, <<<<"f", "r", "o", "m">>, "FROM">>,
      <<<<"F", "r", "o", "m">>, "FROM">>, <<<<"f", "R", "o", "M">>, "FROM">>,
      <<<<"W", "H", "E", "R", "E">>, "WHERE">>, <<<<"w", "h", "e", "r", "e">>, "WHERE">>,
      <<<<"W", "h", "e", "r", "e">>, "WHERE">>, <<<<"w", "H", "e", "R", "e">>, "WHERE">>,
      <<<<"L", "I", "K", "E">>, "LIKE">>, <<<<"l", "i", "k", "e">>, "LIKE">>,
      <<<<"L", "i", "k", "e">>, "LIKE">>, <<<<"l", "I", "k", "E">>, "LIKE">>,
      <<<<"W", "I", "T", "H">>, "WITH">>, <<<<"w", "i", "t", "h">>, "WITH">>,
      <<<<"W", "i", "t", "h">>, "WITH">>, <<<<"w", "I", "t", "H">>, "WITH">>,
      <<<<"A", "N", "D">>, "AND">>, <<<<"a", "n", "d">>, "AND">>, <<<<"A", "n", "d">>, "AND">>,
      <<<<"a", "N", "d">>, "AND">>, <<<<"O", "R">>, "OR">>, <<<<"o", "r">>, "OR">>,
      <<<<"O", "r">>, "OR">>, <<<<"o", "R">>, "OR">>, <<<<"I", "N">>, "IN">>,
      <<<<"i", "n">>, "IN">>, <<<<"I", "n">>, "IN">>, <<<<"i", "N">>, "IN">>,
      <<<<"N", "O", "T", "_", "I", "N">>, "NOT_IN">>,
      <<<<"n", "o", "t", "_", "i", "n">>, "NOT_IN">>,
      <<<<"N", "o", "t", "_", "i", "n">>, "NOT_IN">>,
      <<<<"n", "O", "t", "_", "i", "N">>, "NOT_IN">>,
      <<<<"S", "T", "A", "R", "T", "S", "_", "W", "I", "T", "H">>, "STARTS_WITH">>,
      <<<<"s", "t", "a", "r", "t", "s", "_", "w", "i", "t", "h">>, "STARTS_WITH">>,
      <<<<"S", "t", "a", "r", "t", "s", "_", "w", "i", "t", "h">>, "STARTS_WITH">>,
      <<<<"s", "T", "a", "R", "t", "S", "_", "W", "i", "T", "h">>, "STARTS_WITH">>,
      <<<<"S", "T", "A", "R", "T", "S", "_", "W", "I", "T", "H", "_", "I", "G", "N", "O", "R", "E", "_", "C", "A", "S", "E">>, "STARTS_WITH_IGNORE_CASE">>,
      <<<<"s", "t", "a", "r", "t", "s", "_", "w", "i", "t", "h", "_", "i", "g", "n", "o", "r", "e", "_", "c", "a", "s", "e">>, "STARTS_WITH_IGNORE_CASE">>,
      <<<<"S", "t", "a", "r", "t", "s", "_", "w", "i", "t", "h", "_", "i", "g", "n", "o", "r", "e", "_", "c", "a", "s", "e">>, "STARTS_WITH_IGNORE_CASE">>,
      <<<<"s", "T", "a", "R", "t", "S", "_", "W", "i", "T", "h", "_", "i", "G", "n", "O", "r", "E", "_", "C", "a", "S", "e">>, "STARTS_WITH_IGNORE_CASE">>,
      <<<<"C", "O", "N", "T", "A", "I", "N", "S">>, "CONTAINS">>,
      <<<<"c", "o", "n", "t", "a", "i", "n", "s">>, "CONTAINS">>,
      <<<<"C", "o", "n", "t", "a", "i", "n", "s">>, "CONTAINS">>,
      <<<<"c", "O", "n", "T", "a", "I", "n", "S">>, "CONTAINS">>,
      <<<<"C", "O", "N", "T", "A", "I", "N", "S", "_", "I", "G", "N", "O", "R", "E", "_", "C", "A", "S", "E">>, "CONTAINS_IGNORE_CASE">>,
      <<<<"c", "o", "n", "t", "a", "i", "n", "s", "_", "i", "g", "n", "o", "r", "e", "_", "c", "a", "s", "e">>, "CONTAINS_IGNORE_CASE">>,
      <<<<"C", "o", "n", "t", "a", "i", "n", "s", "_", "i", "g", "n", "o", "r", "e", "_", "c", "a", "s", "e">>, "CONTAINS_IGNORE_CASE">>,
      <<<<"c", "O", "n", "T", "a", "I", "n", "S", "_", "I", "g", "N", "o", "R", "e", "_", "c", "A", "s", "E">>, "CONTAINS_IGNORE_CASE">>,
      <<<<"D", "O", "E", "S", "_", "N", "O", "T", "_", "C", "O", "N", "T", "A", "I", "N">>, "DOES_NOT_CONTAIN">>,
      <<<<"d", "o", "e", "s", "_", "n", "o", "t", "_", "c", "o", "n", "t", "a", "i", "n">>, "DOES_NOT_CONTAIN">>,
      <<<<"D", "o", "e", "s", "_", "n", "o", "t", "_", "c", "o", "n", "t", "a", "i", "n">>, "DOES_NOT_CONTAIN">>,
      <<<<"d", "O", "e", "S", "_", "N", "o", "T", "_", "C", "o", "N", "t", "A", "i", "N">>, "DOES_NOT_CONTAIN">>,
      <<<<"D", "O", "E", "S", "_", "N", "O", "T", "_", "C", "O", "N", "T", "A", "I", "N", "_", "I", "G", "N", "O", "R", "E", "_", "C", "A", "S", "E">>, "DOES_NOT_CONTAIN_IGNORE_CASE">>,
      <<<<"d", "o", "e", "s", "_", "n", "o", "t", "_", "c", "o", "n", "t", "a", "i", "n", "_", "i", "g", "n", "o", "r", "e", "_", "c", "a", "s", "e">>, "DOES_NOT_CONTAIN_IGNORE_CASE">>,
      <<<<"D", "o", "e", "s", "_", "n", "o", "t", "_", "c", "o", "n", "t", "a", "i", "n", "_", "i", "g", "n", "o", "r", "e", "_", "c", "a", "s", "e">>, "DOES_NOT_CONTAIN_IGNORE_CASE">>,
      <<<<"d", "O", "e", "S", "_", "N", "o", "T", "_", "C", "o", "N", "t", "A", "i", "N", "_", "I", "g", "N", "o", "R", "e", "_", "c", "A", "s", "E">>, "DOES_NOT_CONTAIN_IGNORE_CASE">>,
      <<<<"D", "U", "R", "I", "N", "G">>, "DURING">>,
      <<<<"d", "u", "r", "i", "n", "g">>, "DURING">>,
      <<<<"D", "u", "r", "i", "n", "g">>, "DURING">>,
      <<<<"d", "U", "r", "I", "n", "G">>, "DURING">>, <<<<"G", "R", "O", "U", "P">>, "GROUP">>,
      <<<<"g", "r", "o", "u", "p">>, "GROUP">>, <<<<"G", "r", "o", "u", "p">>, "GROUP">>,
      <<<<"g", "R", "o", "U", "p">>, "GROUP">>, <<<<"O", "R", "D", "E", "R">>, "ORDER">>,
      <<<<"o", "r", "d", "e", "r">>, "ORDER">>, <<<<"O", "r", "d", "e", "r">>, "ORDER">>,
      <<<<"o", "R", "d", "E", "r">>, "ORDER">>, <<<<"B", "Y">>, "BY">>, <<<<"b", "y">>, "BY">>,
      <<<<"B", "y">>, "BY">>, <<<<"b", "Y">>, "BY">>, <<<<"A", "S", "C">>, "ASC">>,
      <<<<"a", "s", "c">>, "ASC">>, <<<<"A", "s", "c">>, "ASC">>, <<<<"a", "S", "c">>, "ASC">>,
      <<<<"D", "E", "S", "C">>, "DESC">>, <<<<"d", "e", "s", "c">>, "DESC">>,
      <<<<"D", "e", "s", "c">>, "DESC">>, <<<<"d", "E", "s", "C">>, "DESC">>,
      <<<<"L", "I", "M", "I", "T">>, "LIMIT">>, <<<<"l", "i", "m", "i", "t">>, "LIMIT">>,
      <<<<"L", "i", "m", "i", "t">>, "LIMIT">>, <<<<"l", "I", "m", "I", "t">>, "LIMIT">> }

OtherWords ==
    { <<<<"a">>, "IDENTIFIER">>, <<<<"S", "e", "l", "e", "c", "t", "s">>, "IDENTIFIER">>,
      <<<<"S", "E", "L", "E", "C">>, "IDENTIFIER">>, <<<<"a", "s", "1">>, "IDENTIFIER">>,
      <<<<"a", "_", "s">>, "IDENTIFIER">>, <<<<"B", "y", "2">>, "IDENTIFIER">>,
      <<<<"i", "n", "n">>, "IDENTIFIER">>, <<<<"n", "o", "t">>, "IDENTIFIER">>,
      <<<<"N", "o", "t", "_">>, "IDENTIFIER">>, <<<<"x", "9", "_">>, "IDENTIFIER">>,
      <<<<"F", "R", "O", "M", "S">>, "IDENTIFIER">>,
      <<<<"d", "e", "s", "c", "_">>, "IDENTIFIER">> }

\* What follows the word in the text, and the token it is to be scanned as:
\* nothing, a space, a comma, a left parenthesis, an operator, a quote.
WordTails ==
    { << <<>>, "EOF", <<>> >>,
      << <<" ", "b">>, "WHITE_SPACE", <<" ">> >>,
      << <<",", "b">>, "COMMA", <<",">> >>,
      << <<"(", "b">>, "LEFT_PARENTHESIS", <<"(">> >>,
      << <<"!", "=", "b">>, "DIFFERENT", <<"!", "=">> >>,
      << <<"*">>, "ASTERISK", <<"*">> >> }

WordCalls ==
    { [word |-> c[1][1], kind |-> c[1][2], tail |-> c[2][1], next |-> c[2][2],
       literal |-> c[2][3], text |-> c[1][1] \o c[2][1]] :
        c \in (ReservedWords \cup OtherWords) \X WordTails }

WordTexts == { c.text : c \in WordCalls }

\* And every text of at most MaxOperatorRunes runes of the operators, of a
\* letter and of a space.
MaxOperatorRunes == 3

OperatorRunes == {"!", ">", "<", "=", "a", " "}

OperatorTexts == SeqsFrom0(OperatorRunes, MaxOperatorRunes)

ScanTexts == SeqsFrom0(ScanRunes, MaxRunes) \cup OperatorTexts \cup WordTexts

\* The statements built by the caller of String: with and without fields and
\* table name, with conditions of one value and of several, quoted or not,
\* with one and two dates, and with the clauses String leaves out.
builtCondition1 ==
    [Condition(<<"a">>) EXCEPT !.Operator = <<"=">>, !.Value = << <<"1">> >>,
                               !.IsValueLiteral = TRUE]

builtCondition2 ==
    [Condition(<<"b">>) EXCEPT !.Operator = <<"I", "N">>,
                               !.Value = << <<"x">>, <<"y", "\"">> >>]

builtCondition3 ==
    [Condition(<<"c">>) EXCEPT !.Operator = <<"I", "N">>,
                               !.Value = << <<"1">>, <<"2">> >>,
                               !.IsValueLiteral = TRUE]

BuiltFields ==
    { <<>>,
      <<Field(<<"a">>)>>,
      <<[Field(<<"a">>) EXCEPT !.Method = <<"S", "U", "M">>, !.ColumnAlias = <<"x">>],
        [Field(<<"b">>) EXCEPT !.Distinct = TRUE]>> }

BuiltWheres ==
    { <<>>, <<builtCondition1>>, <<builtCondition2>>,
      <<builtCondition1, builtCondition3>> }

BuiltDurings == { <<>>, <<dateText1>>, <<dateText2, dateText3>> }

BuiltStatements ==
    { [SelectStatement EXCEPT
          !.Fields = f, !.TableName = n, !.Where = w, !.During = d,
          !.GroupBy = IF g /\ f # <<>> THEN <<ColumnPosition(f[1], 1)>> ELSE <<>>,
          !.OrderBy = IF g /\ f # <<>>
                      THEN <<Ordering(ColumnPosition(f[1], 1), TRUE)>> ELSE <<>>,
          !.RowCount = IF g THEN 5 ELSE 0, !.WithRowCount = g] :
        f \in BuiltFields, n \in {<<>>, <<"t">>}, w \in BuiltWheres,
        d \in BuiltDurings, g \in BOOLEAN }

\* The lists given to the scanner: one to MaxElements elements, each a
\* string or a value literal, after one another in a text with a comma, with
\* or without a space, between them, and closed by a right square bracket,
\* with or without a space before it, or not closed.
MaxElements == 3

ListElements ==
    << <<"'", "x", "'">>, <<"\"", "y", "\"">>, <<"a">>, <<"1", ".", "5">> >>

StringElements == {1, 2}

ListSeparators == { <<",">>, <<",", " ">> }

ListClosings == { <<"]">>, <<" ", "]">>, <<>> }

ListText(elems, sep, close) ==
    <<"[">> \o Joined([i \in DOMAIN elems |-> ListElements[elems[i]]], <<>>, sep) \o close

ListCalls ==
    { [elems |-> c[1], sep |-> c[2], close |-> c[3], text |-> ListText(c[1], c[2], c[3])] :
        c \in SeqsUpTo(DOMAIN ListElements, MaxElements) \X ListSeparators \X ListClosings }

ListTexts == { c.text : c \in ListCalls } \cup { <<"[", "]">>, <<"a", "]">>, <<>> }

\* Texts that end in the middle of a list: after a comma, after AND, after a
\* left bracket or parenthesis.
\* SELECT a,
truncatedText1 ==
    <<"S", "E", "L", "E", "C", "T", " ", "a", ",">>

\* SELECT a, 
truncatedText2 ==
    <<"S", "E", "L", "E", "C", "T", " ", "a", ",", " ">>

\* SELECT SUM(
truncatedText3 ==
    <<"S", "E", "L", "E", "C", "T", " ", "S", "U", "M", "(">>

\* SELECT a FROM t WHERE a = 1 AND
truncatedText4 ==
    <<"S", "E", "L", "E", "C", "T", " ", "a", " ", "F", "R", "O", "M", " ", "t", " ", "W", "H",
      "E", "R", "E", " ", "a", " ", "=", " ", "1", " ", "A", "N", "D">>

\* SELECT a FROM t WHERE a IN [
truncatedText5 ==
    <<"S", "E", "L", "E", "C", "T", " ", "a", " ", "F", "R", "O", "M", " ", "t", " ", "W", "H",
      "E", "R", "E", " ", "a", " ", "I", "N", " ", "[">>

\* SELECT a FROM t WHERE a IN [1,
truncatedText6 ==
    <<"S", "E", "L", "E", "C", "T", " ", "a", " ", "F", "R", "O", "M", " ", "t", " ", "W", "H",
      "E", "R", "E", " ", "a", " ", "I", "N", " ", "[", "1", ",">>

\* SELECT a FROM t WHERE a IN ['x', 
truncatedText7 ==
    <<"S", "E", "L", "E", "C", "T", " ", "a", " ", "F", "R", "O", "M", " ", "t", " ", "W", "H",
      "E", "R", "E", " ", "a", " ", "I", "N", " ", "[", "'", "x", "'", ",", " ">>

\* SELECT a FROM t DURING 20161224,
truncatedText8 ==
    <<"S", "E", "L", "E", "C", "T", " ", "a", " ", "F", "R", "O", "M", " ", "t", " ", "D", "U",
      "R", "I", "N", "G", " ", "2", "0", "1", "6", "1", "2", "2", "4", ",">>

\* SELECT a FROM t GROUP BY a,
truncatedText9 ==
    <<"S", "E", "L", "E", "C", "T", " ", "a", " ", "F", "R", "O", "M", " ", "t", " ", "G", "R",
      "O", "U", "P", " ", "B", "Y", " ", "a", ",">>

\* SELECT a, b FROM t ORDER BY a DESC,
truncatedText10 ==
    <<"S", "E", "L", "E", "C", "T", " ", "a", ",", " ", "b", " ", "F", "R", "O", "M", " ", "t",
      " ", "O", "R", "D", "E", "R", " ", "B", "Y", " ", "a", " ", "D", "E", "S", "C", ",">>

\* SELECT a FROM t LIMIT 5,
truncatedText11 ==
    <<"S", "E", "L", "E", "C", "T", " ", "a", " ", "F", "R", "O", "M", " ", "t", " ", "L", "I",
      "M", "I", "T", " ", "5", ",">>

TruncatedTexts ==
    {truncatedText1, truncatedText2, truncatedText3, truncatedText4, truncatedText5, truncatedText6,
     truncatedText7, truncatedText8, truncatedText9, truncatedText10, truncatedText11}

\* CREATE VIEW v (
truncatedView1 ==
    <<"C", "R", "E", "A", "T", "E", " ", "V", "I", "E", "W", " ", "v", " ", "(">>

\* CREATE VIEW v (c,
truncatedView2 ==
    <<"C", "R", "E", "A", "T", "E", " ", "V", "I", "E", "W", " ", "v", " ", "(", "c", ",">>

\* CREATE VIEW v (c, d, 
truncatedView3 ==
    <<"C", "R", "E", "A", "T", "E", " ", "V", "I", "E", "W", " ", "v", " ", "(", "c", ",", " ",
      "d", ",", " ">>

TruncatedViews == {truncatedView1, truncatedView2, truncatedView3}

\* CREATE VIEW statements, what ends them and what follows in the text.
\* CREATE VIEW v AS SELECT a FROM t LIMIT 5
viewBodyText2 == stmtText4 \o <<" ", "L", "I", "M", "I", "T", " ", "5">>

ViewBodies == {stmtText4, viewBodyText2}

\* The end of the query: the end of the text, ";" or \G, with or without a
\* space before it; vertical tells the marker of the vertical output.
ViewMarkers ==
    { [text |-> <<>>, token |-> "EOF", vertical |-> FALSE],
      [text |-> <<";">>, token |-> "SEMICOLON", vertical |-> FALSE],
      [text |-> <<" ", ";">>, token |-> "SEMICOLON", vertical |-> FALSE],
      [text |-> <<"\\", "G">>, token |-> "G_MODIFIER", vertical |-> TRUE],
      [text |-> <<" ", "\\", "G">>, token |-> "G_MODIFIER", vertical |-> TRUE] }

\* What follows the end of the query: nothing, zz, \G, ";", a statement.
ViewTails ==
    { <<>>, <<" ", "z", "z">>, <<"\\", "G">>, <<";">>,
      <<" ", "S", "E", "L", "E", "C", "T", " ", "b", " ", "F", "R", "O", "M", " ", "t">> }

ViewEndCases ==
    { [text |-> c[1] \o c[2].text \o c[3], head |-> c[1] \o c[2].text, marker |-> c[2]] :
        c \in { d \in ViewBodies \X ViewMarkers \X ViewTails :
                  d[2].token = "EOF" => d[3] = <<>> } }

ViewEndTexts == { c.text : c \in ViewEndCases }

\* The calls made: the method and the text of the reader.
Call(method, texts) == { [entry |-> method, src |-> t] : t \in texts }

Inputs ==
    Call("Parse", ParseTexts \cup OtherTexts)
        \cup Call("parseSelect", SelectTexts)
        \cup Call("parseDescribe", DescribeTexts)
        \cup Call("parseShow", ShowTexts)
        \cup Call("parseCreateView", CreateViewTexts)
        \cup Call("Scan", ScanTexts)
        \cup Call("scanList", ListTexts)
        \cup Call("parseSelect", TruncatedTexts)
        \cup Call("Parse", TruncatedTexts \cup TruncatedViews)
        \cup Call("parseCreateView", TruncatedViews)
        \cup Call("parseCreateView", ViewEndTexts)
        \cup Call("Parse", ViewEndTexts)
        \cup { [entry |-> c.entry, src |-> c.src] : c \in WrongMethodCalls }
        \cup TerminatedCalls

(***************************************************************************)
(* The state machine                                                       *)
(***************************************************************************)

\* The state of a Parser and of the method called on it: the fields of the
\* Parser, p, and the locals and results of the call.
Instance(e, text, q, at, s, v, d, list, error, f) ==
    [entry |-> e, src |-> text, p |-> q, pc |-> at, stmt |-> s, view |-> v,
     dateLiteral |-> d, statements |-> list, err |-> error, first |-> f]

\* No second Parser.
NoInstance ==
    Instance("none", <<>>, NewParser, "none", NilStatement, NilStatement, FALSE, <<>>,
             NoErr, NilStatement)

\* A Parser just made of a reader of the text, the method about to be called
\* on it; for String, the statement it is called on.
NewInstance(e, text, s) ==
    Instance(e, text, NewParser, e, s, NilStatement, FALSE, <<>>, NoErr, NilStatement)

\* The calls made on two Parsers at a time: the method, the text, and for
\* String the statement.
PairCalls ==
    { NewInstance("Parse", t, NilStatement) :
        t \in { ParseText(<<>>, <<s, e>>) : s \in StatementTexts, e \in LastEndings }
                 \cup { ParseText(<< <<stmtText2, separator1>> >>, <<stmtText3, lastEnding1>>),
                        ParseText(<< <<stmtText1, separator2>> >>, <<stmtText5, lastEnding2>>),
                        otherText1, otherText2, otherText3 } }
        \cup { NewInstance("parseSelect", t, NilStatement) :
                  t \in ClausesTexts \cup {otherText9, otherText12} }
        \cup { NewInstance("parseDescribe", t, NilStatement) :
                  t \in {describeText2, describeText4, describeText6} }
        \cup { NewInstance("parseShow", t, NilStatement) :
                  t \in {showText4, showText8, showText9} }
        \cup { NewInstance("parseCreateView", t, NilStatement) :
                  t \in {createViewText1, createViewText3, createViewText13} }
        \cup { NewInstance("Scan", t, NilStatement) :
                  t \in { <<"'", "a", "'", " ">>, <<"a", " ", "\"", "a">> } }
        \cup { NewInstance("scanList", t, NilStatement) :
                  t \in { ListText(<<1, 2>>, <<",">>, <<"]">>),
                          ListText(<<3, 1>>, <<",", " ">>, <<"]">>) } }
        \cup { NewInstance("String", <<>>, s) :
                  s \in { b \in BuiltStatements : b.Where # <<>> /\ b.During # <<>> } }

\* Pairs of texts of the same tokens, the second one with whitespace added
\* between tokens.
\* SELECT SUM(a) FROM t
tightText1 ==
    <<"S", "E", "L", "E", "C", "T", " ", "S", "U", "M", "(", "a", ")", " ", "F", "R", "O", "M",
      " ", "t">>

\* SELECT SUM (a) FROM t
spacedText1 ==
    <<"S", "E", "L", "E", "C", "T", " ", "S", "U", "M", " ", "(", "a", ")", " ", "F", "R", "O",
      "M", " ", "t">>

\* SELECT COUNT(* x FROM t
tightText2 ==
    <<"S", "E", "L", "E", "C", "T", " ", "C", "O", "U", "N", "T", "(", "*", " ", "x", " ", "F",
      "R", "O", "M", " ", "t">>

\* SELECT COUNT (* x FROM t
spacedText2 ==
    <<"S", "E", "L", "E", "C", "T", " ", "C", "O", "U", "N", "T", " ", "(", "*", " ", "x", " ",
      "F", "R", "O", "M", " ", "t">>

\* SELECT a,b FROM t WHERE a=1 AND b<2
tightText3 ==
    <<"S", "E", "L", "E", "C", "T", " ", "a", ",", "b", " ", "F", "R", "O", "M", " ", "t", " ",
      "W", "H", "E", "R", "E", " ", "a", "=", "1", " ", "A", "N", "D", " ", "b", "<", "2">>

\* SELECT  a ,\tb  FROM t\nWHERE a = 1  AND b < 2
spacedText3 ==
    <<"S", "E", "L", "E", "C", "T", " ", " ", "a", " ", ",", "\t", "b", " ", " ", "F", "R",
      "O", "M", " ", "t", "\n", "W", "H", "E", "R", "E", " ", "a", " ", "=", " ", "1", " ",
      " ", "A", "N", "D", " ", "b", " ", "<", " ", "2">>

\* DESC t
tightText4 ==
    <<"D", "E", "S", "C", " ", "t">>

\*  DESC \t t 
spacedText4 ==
    <<" ", "D", "E", "S", "C", " ", "\t", " ", "t", " ">>

\* SELECT a FROM t LIMIT 5,2
tightText5 ==
    <<"S", "E", "L", "E", "C", "T", " ", "a", " ", "F", "R", "O", "M", " ", "t", " ", "L", "I",
      "M", "I", "T", " ", "5", ",", "2">>

\* SELECT a FROM t LIMIT 5 , 2
spacedText5 ==
    <<"S", "E", "L", "E", "C", "T", " ", "a", " ", "F", "R", "O", "M", " ", "t", " ", "L", "I",
      "M", "I", "T", " ", "5", " ", ",", " ", "2">>

\* SELECT a FROM t DURING 20161224,20160229
tightText6 ==
    <<"S", "E", "L", "E", "C", "T", " ", "a", " ", "F", "R", "O", "M", " ", "t", " ", "D", "U",
      "R", "I", "N", "G", " ", "2", "0", "1", "6", "1", "2", "2", "4", ",", "2", "0", "1", "6",
      "0", "2", "2", "9">>

\* SELECT a FROM t DURING 20161224 , 20160229
spacedText6 ==
    <<"S", "E", "L", "E", "C", "T", " ", "a", " ", "F", "R", "O", "M", " ", "t", " ", "D", "U",
      "R", "I", "N", "G", " ", "2", "0", "1", "6", "1", "2", "2", "4", " ", ",", " ", "2", "0",
      "1", "6", "0", "2", "2", "9">>

\* SELECT a,b FROM t GROUP BY a,2 ORDER BY 1 DESC,b
tightText7 ==
    <<"S", "E", "L", "E", "C", "T", " ", "a", ",", "b", " ", "F", "R", "O", "M", " ", "t", " ",
      "G", "R", "O", "U", "P", " ", "B", "Y", " ", "a", ",", "2", " ", "O", "R", "D", "E", "R",
      " ", "B", "Y", " ", "1", " ", "D", "E", "S", "C", ",", "b">>

\* SELECT a, b FROM t GROUP BY a , 2 ORDER BY 1  DESC , b
spacedText7 ==
    <<"S", "E", "L", "E", "C", "T", " ", "a", ",", " ", "b", " ", "F", "R", "O", "M", " ", "t",
      " ", "G", "R", "O", "U", "P", " ", "B", "Y", " ", "a", " ", ",", " ", "2", " ", "O", "R",
      "D", "E", "R", " ", "B", "Y", " ", "1", " ", " ", "D", "E", "S", "C", " ", ",", " ", "b">>

\* SHOW TABLES WITH c
tightText8 ==
    <<"S", "H", "O", "W", " ", "T", "A", "B", "L", "E", "S", " ", "W", "I", "T", "H", " ", "c">>

\* SHOW  TABLES\nWITH  c
spacedText8 ==
    <<"S", "H", "O", "W", " ", " ", "T", "A", "B", "L", "E", "S", "\n", "W", "I", "T", "H",
      " ", " ", "c">>

\* CREATE VIEW v(c,)AS SELECT a FROM t
tightText9 ==
    <<"C", "R", "E", "A", "T", "E", " ", "V", "I", "E", "W", " ", "v", "(", "c", ",", ")", "A",
      "S", " ", "S", "E", "L", "E", "C", "T", " ", "a", " ", "F", "R", "O", "M", " ", "t">>

\* CREATE VIEW v ( c , ) AS SELECT a FROM t
spacedText9 ==
    <<"C", "R", "E", "A", "T", "E", " ", "V", "I", "E", "W", " ", "v", " ", "(", " ", "c", " ",
      ",", " ", ")", " ", "A", "S", " ", "S", "E", "L", "E", "C", "T", " ", "a", " ", "F", "R",
      "O", "M", " ", "t">>

\* SELECT a FROM t WHERE a=!
tightText10 ==
    <<"S", "E", "L", "E", "C", "T", " ", "a", " ", "F", "R", "O", "M", " ", "t", " ", "W", "H",
      "E", "R", "E", " ", "a", "=", "!">>

\* SELECT a FROM t WHERE a = !
spacedText10 ==
    <<"S", "E", "L", "E", "C", "T", " ", "a", " ", "F", "R", "O", "M", " ", "t", " ", "W", "H",
      "E", "R", "E", " ", "a", " ", "=", " ", "!">>

SpacedPairs ==
    { <<tightText1, spacedText1>>,
      <<tightText2, spacedText2>>,
      <<tightText3, spacedText3>>,
      <<tightText4, spacedText4>>,
      <<tightText5, spacedText5>>,
      <<tightText6, spacedText6>>,
      <<tightText7, spacedText7>>,
      <<tightText8, spacedText8>>,
      <<tightText9, spacedText9>>,
      <<tightText10, spacedText10>> }

\* The two calls made at a time: the same call on two Parsers of the same
\* text, or Parse on the Parsers of the two texts of a pair.
PairInits ==
    { <<c, c>> : c \in PairCalls }
        \cup { <<NewInstance("Parse", s[1], NilStatement),
                 NewInstance("Parse", s[2], NilStatement)>> : s \in SpacedPairs }

\* NewParser(strings.NewReader(text)), and the method called on it; or a
\* statement built by the caller, and String called on it.
Init ==
    /\ \/ /\ \E in \in Inputs :
                /\ entry = in.entry
                /\ src = in.src
                /\ pc = in.entry
          /\ stmt = NilStatement
       \/ /\ entry = "String"
          /\ src = <<>>
          /\ pc = "String"
          /\ stmt \in BuiltStatements
    /\ p = NewParser
    /\ view = NilStatement
    /\ dateLiteral = FALSE
    /\ statements = <<>>
    /\ err = NoErr
    /\ first = NilStatement
    /\ other = NoInstance

\* The statement parseSelect returned is formatted and the text parsed again:
\* NewParser(strings.NewReader(stmt.String())).parseSelect().
Reparse ==
    /\ pc = "done"
    /\ entry = "parseSelect"
    /\ err = NoErr
    /\ first.kind = "nil"
    /\ first' = stmt
    /\ src' = String(stmt)
    /\ p' = NewParser
    /\ pc' = "parseSelect"
    /\ stmt' = NilStatement
    /\ UNCHANGED <<entry, view, dateLiteral, statements, err, other>>

\* s.String() on a statement the caller built; src holds the text returned.
FormatStatement ==
    /\ pc = "String"
    /\ src' = String(stmt)
    /\ pc' = "done"
    /\ UNCHANGED <<entry, p, stmt, view, dateLiteral, statements, err, first, other>>

\* The tokens of a text read one after the other, up to EOF: p.scan() with no
\* token pushed back, that is p.buf.t, p.buf.l = p.s.Scan().
ScanToken ==
    /\ pc = "Scan"
    /\ \E q \in {scan(src, p)} :
         /\ p' = q
         /\ pc' = IF q.t = "EOF" THEN "done" ELSE "Scan"
    /\ UNCHANGED <<entry, src, stmt, view, dateLiteral, statements, err, first, other>>

\* A list read by the scanner alone: s.scanList(); stmt holds the token and
\* the list returned, p.pos the reader position after the call.
ScanList ==
    /\ pc = "scanList"
    /\ \E r \in {scanList(src, p.pos)} :
         /\ p' = [p EXCEPT !.pos = r.pos]
         /\ stmt' = [kind |-> "List", Token |-> r.t, Values |-> r.list]
         /\ pc' = "done"
    /\ UNCHANGED <<entry, src, view, dateLiteral, statements, err, first, other>>

Next ==
    \/ ScanToken
    \/ ScanList
    \/ FormatStatement
    \/ ParseStatement
    \/ ParseNext
    \/ parseDescribe
    \/ parseShow
    \/ parseCreateView
    \/ parseViewColumn
    \/ parseViewSource
    \/ parseSelect
    \/ parseSelectField
    \/ parseSelectFrom
    \/ parseSelectWhere
    \/ parseSelectCondition
    \/ parseSelectDuring
    \/ parseSelectRange
    \/ parseSelectGroup
    \/ parseSelectGroupBy
    \/ parseSelectOrder
    \/ parseSelectOrderBy
    \/ parseSelectLimit
    \/ parseSelectEnding
    \/ Reparse

Spec == Init /\ [][Next]_vars

\* Two Parsers, each made of its own reader, and the method about to be
\* called on each.
InitPair ==
    \E c \in PairInits :
        /\ entry = c[1].entry
        /\ src = c[1].src
        /\ p = c[1].p
        /\ pc = c[1].pc
        /\ stmt = c[1].stmt
        /\ view = c[1].view
        /\ dateLiteral = c[1].dateLiteral
        /\ statements = c[1].statements
        /\ err = c[1].err
        /\ first = c[1].first
        /\ other = c[2]

\* A variant of Switch for Parsers that share their scanner and token
\* buffer: p is not part of the state each one owns.
SwitchSharing ==
    /\ other # NoInstance
    /\ other' = Instance(entry, src, p, pc, stmt, view, dateLiteral, statements, err, first)
    /\ entry' = other.entry
    /\ src' = other.src
    /\ pc' = other.pc
    /\ stmt' = other.stmt
    /\ view' = other.view
    /\ dateLiteral' = other.dateLiteral
    /\ statements' = other.statements
    /\ err' = other.err
    /\ first' = other.first
    /\ UNCHANGED p

\* The steps of the two calls are interleaved: the running call stops where
\* it is and the call on the other Parser goes on where it was.  All the
\* state of a call is in its Parser (its scanner, its buffer) and its own
\* locals; nothing is left behind for the other.
Switch ==
    /\ other # NoInstance
    /\ other' = Instance(entry, src, p, pc, stmt, view, dateLiteral, statements, err, first)
    /\ entry' = other.entry
    /\ src' = other.src
    /\ p' = other.p
    /\ pc' = other.pc
    /\ stmt' = other.stmt
    /\ view' = other.view
    /\ dateLiteral' = other.dateLiteral
    /\ statements' = other.statements
    /\ err' = other.err
    /\ first' = other.first

NextPair ==
    \/ Next
    \/ Switch

SpecPair == InitPair /\ [][NextPair]_vars

(***************************************************************************)
(* Properties                                                              *)
(***************************************************************************)

\* The statements the parser has returned: those Parse has appended, and the
\* one a parse function has just returned without error.
Returned ==
    statements \o (IF /\ pc \in {"parsed", "done"}
                      /\ entry \notin {"Scan", "scanList", "String"}
                      /\ err = NoErr
                      /\ stmt.kind # "nil"
                   THEN <<stmt>> ELSE <<>>)

\* The SELECT statement of a statement: itself, or the source query of a view.
SelectOf(s) == IF s.kind = "CreateView" THEN s.View ELSE s

\* The column names of a field list.
ColumnNames(fields) == [i \in DOMAIN fields |-> fields[i].ColumnName]

\* The statement texts that are well formed, and the statement each one is.
WellFormedStatements == {stmtText1, stmtText2, stmtText3, stmtText4}

StatementKind(text) ==
    CASE text = stmtText1 -> "Select"
      [] text = stmtText2 -> "Describe"
      [] text = stmtText3 -> "Show"
      [] text = stmtText4 -> "CreateView"

\* The texts made of well-formed statements, each ended by a separator and
\* the last one by an ending or nothing, with the statements they hold.
WellFormedParses ==
    { [text  |-> ParseText(head, last),
       kinds |-> [i \in 1..(Len(head) + 1) |->
                    IF i <= Len(head) THEN StatementKind(head[i][1])
                    ELSE StatementKind(last[1])]] :
        head \in SeqsFrom0(WellFormedStatements \X Separators, MaxStatements - 1),
        last \in WellFormedStatements \X LastEndings }

\* C1: Parse on a text of n >= 1 well-formed statements, each ended by a
\* separator or a vertical-output marker, the last one maybe by the end of the
\* text, returns the n statements in the order of the text and no error.
C1_ParseReturnsEveryStatement ==
    (entry = "Parse" /\ pc = "done") =>
        \A c \in WellFormedParses :
            src = c.text =>
                /\ err = NoErr
                /\ Len(statements) = Len(c.kinds)
                /\ \A i \in DOMAIN c.kinds : statements[i].kind = c.kinds[i]

\* Parse has returned from "DESC t;DESC t" with the first statement and the
\* error of an unknown statement: the DESC of the second statement was read by
\* the test of the end of the text, and the dispatch saw the table name.
C1_FirstTokenLost ==
    /\ entry = "Parse"
    /\ pc = "done"
    /\ src = ParseText(<< <<stmtText2, separator1>> >>, <<stmtText2, lastEnding1>>)
    /\ Len(statements) = 1
    /\ err = Err("UNKWOWN_STATEMENT", <<>>)

C3_RoundTrip ==
    (entry = "parseSelect" /\ pc = "done" /\ first.kind # "nil") =>
        /\ err = NoErr
        /\ ColumnNames(stmt.Fields) = ColumnNames(first.Fields)
        /\ stmt.TableName = first.TableName
        /\ stmt.Where = first.Where
        /\ stmt.During = first.During

\* The text of a statement with the condition a = 1 was parsed again, and the
\* condition came back with another value.
C3_ConditionChanged ==
    /\ entry = "parseSelect"
    /\ pc = "done"
    /\ first.kind # "nil"
    /\ first.Where = <<[Condition(<<"a">>) EXCEPT !.Operator = <<"=">>,
                                                 !.Value = << <<"1">> >>]>>
    /\ err = NoErr
    /\ stmt.Where # first.Where

\* The shapes of a DURING list: one named range, or two dates of 8 digits.
ValidDuring(d) ==
    \/ Len(d) = 1 /\ isDateRangeLiteral(d[1])
    \/ Len(d) = 2 /\ \A i \in 1..2 : Len(d[i]) = 8 /\ isDate(d[i])

\* The texts with a DURING clause, and the dates written in it.
DuringCases ==
    { [text |-> DuringText(d, e), dates |-> d] :
        d \in SeqsUpTo(DateTexts, MaxRange), e \in {endingText1, endingText3} }

\* C4: the DURING list of a SELECT statement returned is empty, or one named
\* range, or two valid dates of 8 digits; a text whose DURING clause has
\* another shape, or no entry, fails with the invalid-DURING error.
C4_DuringShape ==
    /\ \A i \in DOMAIN Returned :
          LET s == SelectOf(Returned[i])
          IN  s.kind = "Select" => (s.During = <<>> \/ ValidDuring(s.During))
    /\ (entry = "parseSelect" /\ pc = "done") =>
          /\ \A c \in DuringCases :
                src = c.text =>
                    IF ValidDuring(c.dates)
                    THEN err = NoErr /\ stmt.During = c.dates
                    ELSE err.kind = "INVALID_DURING"
          /\ src = otherText6 => err.kind = "INVALID_DURING"

\* parseSelect has returned a statement with two dates.
C4_TwoDates ==
    /\ entry = "parseSelect"
    /\ pc = "done"
    /\ err = NoErr
    /\ stmt.During = <<dateText2, dateText3>>

\* The column reference c is a field of s, at the position it gives.
InFields(c, s) ==
    /\ 1 <= c.Position
    /\ c.Position <= Len(s.Fields)
    /\ c.ColumnName = s.Fields[c.Position].ColumnName
    /\ c.ColumnAlias = s.Fields[c.Position].ColumnAlias

\* C5: in a SELECT statement returned, every column of GROUP BY and of ORDER
\* BY has a position from 1 to the number of fields, and is the column of the
\* field at that position.
C5_PositionsInFields ==
    \A i \in DOMAIN Returned :
        LET s == SelectOf(Returned[i])
        IN  s.kind = "Select" =>
                /\ \A g \in DOMAIN s.GroupBy : InFields(s.GroupBy[g], s)
                /\ \A o \in DOMAIN s.OrderBy : InFields(s.OrderBy[o], s)

\* parseSelect has returned a statement grouped and ordered, the order by the
\* alias of its second field.
C5_GroupedAndOrdered ==
    /\ entry = "parseSelect"
    /\ pc = "done"
    /\ err = NoErr
    /\ Len(stmt.Fields) = 2
    /\ Len(stmt.GroupBy) = 1
    /\ Len(stmt.OrderBy) = 1
    /\ stmt.OrderBy[1].Position = 2

\* The conditions whose value is a list between brackets, and the number of
\* values each one lists.
ListConditions == {conditionText5, conditionText6, conditionText7}

ListLength(c) == IF c = conditionText7 THEN 1 ELSE 2

\* C6: every condition of a SELECT statement returned has at least one value,
\* and a condition whose value is a list of k values between brackets is
\* returned with these k values.
C6_ValueLists ==
    /\ \A i \in DOMAIN Returned :
          LET s == SelectOf(Returned[i])
          IN  s.kind = "Select" => \A w \in DOMAIN s.Where : s.Where[w].Value # <<>>
    /\ (entry = "parseSelect" /\ pc = "done" /\ first.kind = "nil") =>
          \A c \in ListConditions, e \in {endingText1, endingText2} :
              src = WhereText(c, <<>>, e) =>
                  /\ err = NoErr
                  /\ Len(stmt.Where) = 1
                  /\ Len(stmt.Where[1].Value) = ListLength(c)
    /\ (entry = "parseSelect" /\ pc = "done" /\ first.kind = "nil" /\ err = NoErr) =>
          \A c \in {conditionText1, conditionText2, conditionText4},
             e \in {endingText1, endingText2} :
              src = WhereText(c, <<>>, e) => Len(stmt.Where[1].Value) = 1

\* parseSelect has refused the condition a IN ["x","y"] at its left bracket.
C6_ListRefused ==
    /\ entry = "parseSelect"
    /\ pc = "done"
    /\ src = WhereText(conditionText5, <<>>, endingText1)
    /\ err = Err("SYNTAX_NEAR", <<"[">>)

\* C7: the condition of a value written between quotes is returned with
\* IsValueLiteral false, the condition of a number or of a bare word with
\* IsValueLiteral true.
C7_LiteralFlag ==
    (entry = "parseSelect" /\ pc = "done" /\ first.kind = "nil" /\ err = NoErr) =>
        \A e \in {endingText1, endingText2} :
            /\ \A c \in {conditionText2, conditionText3, conditionText8} :
                  src = WhereText(c, <<>>, e) => ~stmt.Where[1].IsValueLiteral
            /\ \A c \in {conditionText1, conditionText4, conditionText10} :
                  src = WhereText(c, <<>>, e) => stmt.Where[1].IsValueLiteral

\* parseSelect has returned the condition a = 'x' with IsValueLiteral true.
C7_StringFlaggedLiteral ==
    /\ entry = "parseSelect"
    /\ pc = "done"
    /\ first.kind = "nil"
    /\ err = NoErr
    /\ src = WhereText(conditionText2, <<>>, endingText1)
    /\ stmt.Where[1].IsValueLiteral

\* C8: an aggregate call closed by its right parenthesis is returned as a
\* field of that method and that column; a call that is not closed is refused
\* as an invalid function.
C8_AggregateCall ==
    (entry = "parseSelect" /\ pc = "done" /\ first.kind = "nil") =>
        /\ src = FieldsText(fieldText4, <<>>) =>
              /\ err = NoErr
              /\ stmt.Fields[1].Method = <<"S", "U", "M">>
              /\ stmt.Fields[1].ColumnName = <<"a">>
        /\ src = FieldsText(fieldText5, <<>>) =>
              /\ err = NoErr
              /\ stmt.Fields[1].Method = <<"C", "O", "U", "N", "T">>
              /\ stmt.Fields[1].ColumnName = <<"*">>
        /\ src = FieldsText(fieldText6, <<>>) =>
              /\ err = NoErr
              /\ stmt.Fields[1].Method = <<"M", "A", "X">>
              /\ stmt.Fields[1].Distinct
              /\ stmt.Fields[1].ColumnName = <<"a">>
        /\ src = FieldsText(fieldText7, <<>>) => err.kind = "INVALID_FUNCTION"

\* parseSelect has refused SUM(a) as an invalid function.
C8_ClosedCallRefused ==
    /\ entry = "parseSelect"
    /\ pc = "done"
    /\ src = FieldsText(fieldText4, <<>>)
    /\ err = Err("INVALID_FUNCTION", <<"a">>)

\* C9: a field followed by AS and a name, or by a name alone, is returned with
\* that name as its alias; a field followed by neither has no alias.
C9_Alias ==
    (entry = "parseSelect" /\ pc = "done" /\ first.kind = "nil" /\ err = NoErr) =>
        /\ src = FieldsText(fieldText8, <<>>) => stmt.Fields[1].ColumnAlias = <<"x">>
        /\ src = FieldsText(fieldText9, <<>>) => stmt.Fields[1].ColumnAlias = <<"y">>
        /\ src = FieldsText(fieldText1, <<>>) => stmt.Fields[1].ColumnAlias = <<>>

\* parseSelect has returned the field "b y" with the column name as its alias.
C9_AliasIsColumnName ==
    /\ entry = "parseSelect"
    /\ pc = "done"
    /\ first.kind = "nil"
    /\ err = NoErr
    /\ src = FieldsText(fieldText9, <<>>)
    /\ stmt.Fields[1].ColumnName = <<"b">>
    /\ stmt.Fields[1].ColumnAlias = <<"b">>

\* C10: LIMIT n gives offset 0 and row count n; LIMIT m, n gives offset m and
\* row count n; both set WithRowCount; without LIMIT the three are 0, 0 and
\* false.
C10_Limit ==
    /\ \A i \in DOMAIN Returned :
          LET s == SelectOf(Returned[i])
          IN  (s.kind = "Select" /\ ~s.WithRowCount) => (s.Offset = 0 /\ s.RowCount = 0)
    /\ (entry = "parseSelect" /\ pc = "done" /\ first.kind = "nil") =>
          \A e \in {endingText1, endingText2, endingText3} :
              /\ src = LimitText(limitText1, e) =>
                    /\ err = NoErr
                    /\ stmt.Offset = 0 /\ stmt.RowCount = 0 /\ ~stmt.WithRowCount
              /\ src = LimitText(limitText2, e) =>
                    /\ err = NoErr
                    /\ stmt.Offset = 0 /\ stmt.RowCount = 5 /\ stmt.WithRowCount
              /\ src = LimitText(limitText3, e) =>
                    /\ err = NoErr
                    /\ stmt.Offset = 15 /\ stmt.RowCount = 5 /\ stmt.WithRowCount

\* parseSelect has returned LIMIT 15, 5 with offset 15 and row count 5.
C10_OffsetAndRowCount ==
    /\ entry = "parseSelect"
    /\ pc = "done"
    /\ first.kind = "nil"
    /\ err = NoErr
    /\ src = LimitText(limitText3, endingText1)
    /\ stmt.Offset = 15
    /\ stmt.RowCount = 5

\* C11: a SHOW statement with a LIKE clause has exactly one Pattern field
\* populated: a pattern with only a trailing % gives Prefix, the text before
\* it; only a leading % gives Suffix, the text after it; both give Contains,
\* the text between them; neither gives Equal, the whole pattern.
C11_LikePattern ==
    (entry = "parseShow" /\ pc = "done" /\ err = NoErr) =>
        /\ src \in {showText3, showText14} =>
              stmt.Like = [Pattern EXCEPT !.Prefix = <<"C">>]
        /\ src = showText4 => stmt.Like = [Pattern EXCEPT !.Suffix = <<"R">>]
        /\ src = showText5 => stmt.Like = [Pattern EXCEPT !.Contains = <<"N">>]
        /\ src \in {showText6, showText15} =>
              stmt.Like = [Pattern EXCEPT !.Equal = <<"L">>]
        /\ src \in {showText3, showText4, showText5, showText6, showText14, showText15} =>
              Cardinality({f \in {"Equal", "Prefix", "Contains", "Suffix"} :
                              stmt.Like[f] # <<>>}) = 1

\* parseShow has returned LIKE 'C%' with the whole text, its closing quote
\* as well, in Equal and nothing in Prefix.
C11_TrailingWildcardIsEqual ==
    /\ entry = "parseShow"
    /\ pc = "done"
    /\ err = NoErr
    /\ src = showText14
    /\ stmt.Like = [Pattern EXCEPT !.Equal = <<"C", "%", "'">>]

\* The position of the quote that closes a string of quote q, looked for from
\* position i on: the first q that no backslash precedes, a backslash taking
\* the rune after it with it; 0 when the text ends first.
RECURSIVE ClosingQuote(_, _, _)
ClosingQuote(text, i, q) ==
    IF i > Len(text) THEN 0
    ELSE IF text[i] = "\\" THEN ClosingQuote(text, i + 2, q)
    ELSE IF text[i] = q THEN i
    ELSE ClosingQuote(text, i + 1, q)

\* C12: a quoted string is scanned as a STRING token whose literal is the
\* runes between the opening quote and the closing quote of the same kind that
\* no backslash precedes, both quotes left out; a string still open at the end
\* of the text gives a token that is not STRING, with an empty literal.
C12_QuotedString ==
    [][(entry = "Scan" /\ pc = "Scan" /\ isQuote(read(src, p.pos))) =>
          LET close == ClosingQuote(src, p.pos + 1, src[p.pos])
          IN  IF close = 0
              THEN p'.t # "STRING" /\ p'.l = <<>>
              ELSE /\ p'.t = "STRING"
                   /\ p'.l = SubSeq(src, p.pos + 1, close - 1)
                   /\ p'.pos = close + 1]_vars

\* The scanner has read 'a' as a STRING token of literal a' : the closing
\* quote is in the literal.
C12_ClosingQuoteKept ==
    /\ entry = "Scan"
    /\ src = <<"'", "a", "'">>
    /\ p.t = "STRING"
    /\ p.l = <<"a", "'">>
    /\ p.pos = 4

\* C13: for each of the four statements, the statement is accepted only if
\* the token after its clauses is the vertical-output marker, the separator or
\* the end of the text; its vertical-output flag is set if and only if that
\* token was the marker; any other token gives the syntax-near error with the
\* literal of that token.
C13_QueryEnding ==
    (pc = "done" /\ first.kind = "nil") =>
        \A s \in {stmtText1, stmtText2, stmtText3, stmtText4}, e \in TerminatorTexts :
            (entry = GrammarOf(s) /\ src = s \o e) =>
                IF e = endingText5
                THEN err = Err("SYNTAX_NEAR", <<"1">>)
                ELSE err = NoErr /\ (stmt.GModifier <=> e = endingText3)

\* parseCreateView has returned CREATE VIEW v AS SELECT a FROM t\G with the
\* flag of the view statement unset and the flag of its source query set.
C13_ViewFlagUnset ==
    /\ entry = "parseCreateView"
    /\ pc = "done"
    /\ src = stmtText4 \o endingText3
    /\ err = NoErr
    /\ ~stmt.GModifier
    /\ stmt.View.GModifier

\* C14: CREATE [OR REPLACE] VIEW name (c1, ..., cn) AS <select>, the list
\* closed by its right parenthesis, is accepted and gives a statement of that
\* name, of the fields c1..cn in order, with Replace set if and only if OR
\* REPLACE was written, and with the parsed SELECT as its View; without a list
\* the fields are empty.
C14_CreateView ==
    (entry = "parseCreateView" /\ pc = "done") =>
        /\ src = stmtText4 =>
              /\ err = NoErr
              /\ stmt.TableName = <<"v">>
              /\ stmt.Fields = <<>>
              /\ ~stmt.Replace
              /\ stmt.View.kind = "Select"
              /\ ColumnNames(stmt.View.Fields) = << <<"a">> >>
        /\ src = createViewText13 =>
              /\ err = NoErr
              /\ stmt.TableName = <<"v">>
              /\ ColumnNames(stmt.Fields) = << <<"c">> >>
              /\ ~stmt.Replace
              /\ ColumnNames(stmt.View.Fields) = << <<"a">> >>
              /\ stmt.View.TableName = <<"t">>
        /\ src = createViewText14 =>
              /\ err = NoErr
              /\ stmt.TableName = <<"v">>
              /\ ColumnNames(stmt.Fields) = << <<"c">>, <<"d">> >>
              /\ stmt.Replace
              /\ ColumnNames(stmt.View.Fields) = << <<"a">>, <<"b">> >>
              /\ stmt.View.TableName = <<"t">>

\* parseCreateView has refused CREATE VIEW v (c) AS SELECT a FROM t at the
\* right parenthesis of its list.
C14_ClosedListRefused ==
    /\ entry = "parseCreateView"
    /\ pc = "done"
    /\ src = createViewText13
    /\ err = Err("SYNTAX_NEAR", <<")">>)

\* C15: a CREATE VIEW statement whose list of columns has not the length of
\* the field list of its SELECT is refused with the columns-do-not-match
\* error; every view statement returned with a list of columns has as many
\* columns as its View has fields.
C15_ViewColumnsMatch ==
    /\ \A i \in DOMAIN Returned :
          LET s == Returned[i]
          IN  (s.kind = "CreateView" /\ s.Fields # <<>>) =>
                  Len(s.Fields) = Len(s.View.Fields)
    /\ (entry = "parseCreateView" /\ pc = "done" /\ src = createViewText5) =>
          err.kind = "COLUMNS_NOT_MATCH"

\* parseCreateView has returned CREATE VIEW v (c,) AS SELECT a, b FROM t, a
\* view of one column on a query of two fields.
C15_MismatchAccepted ==
    /\ entry = "parseCreateView"
    /\ pc = "done"
    /\ src = createViewText5
    /\ err = NoErr
    /\ Len(stmt.Fields) = 1
    /\ Len(stmt.View.Fields) = 2

\* The text `sub` is found in `text`.
Contains(text, sub) ==
    \E i \in 1..(Len(text) - Len(sub) + 1) : SubSeq(text, i, i + Len(sub) - 1) = sub

StartsWith(text, sub) == Len(sub) <= Len(text) /\ SubSeq(text, 1, Len(sub)) = sub

EndsWith(text, sub) ==
    Len(sub) <= Len(text) /\ SubSeq(text, Len(text) - Len(sub) + 1, Len(text)) = sub

\* The names n1, n2, ... written "n1, n2, ...".
RECURSIVE CommaList(_)
CommaList(names) ==
    IF Len(names) = 1 THEN names[1]
    ELSE names[1] \o <<",", " ">> \o CommaList(Tail(names))

\* The words String never writes: the clauses it leaves out and the
\* decorations of a field.
LeftOutWords ==
    { <<"G", "R", "O", "U", "P">>, <<"O", "R", "D", "E", "R">>, <<"L", "I", "M", "I", "T">>,
      <<"D", "I", "S", "T", "I", "N", "C", "T">>, <<" ", "A", "S", " ">>,
      <<"S", "U", "M">>, <<"M", "A", "X">>, <<"M", "I", "N">>, <<"A", "V", "G">>,
      <<"C", "O", "U", "N", "T">>, <<"(">>, <<")">> }

\* The dates of a DURING list as they are written: one range, or two dates
\* and a comma.
DatesText(d) == IF Len(d) = 2 THEN d[1] \o <<",">> \o d[2] ELSE d[1]

\* The text is what String is to make of s.
FormatOf(text, s) ==
    IF s.Fields = <<>> \/ s.TableName = <<>> THEN text = <<>>
    ELSE LET head == <<"S", "E", "L", "E", "C", "T", " ">> \o CommaList(ColumnNames(s.Fields))
                        \o <<" ", "F", "R", "O", "M", " ">> \o s.TableName
             rest == SubSeq(text, Len(head) + 1, Len(text))
             where  == <<" ", "W", "H", "E", "R", "E", " ">>
             during == <<" ", "D", "U", "R", "I", "N", "G", " ">>
         IN  /\ StartsWith(text, head)
             /\ IF s.Where = <<>> THEN ~Contains(text, where)
                ELSE StartsWith(rest, where \o s.Where[1].ColumnName)
             /\ IF s.During = <<>> THEN ~Contains(text, during)
                ELSE EndsWith(rest, during \o DatesText(s.During))
             /\ (s.Where = <<>> /\ s.During = <<>>) => rest = <<>>
             /\ (s.Where = <<>> /\ s.During # <<>>) =>
                    rest = during \o DatesText(s.During)
             /\ \A w \in LeftOutWords : ~Contains(text, w)

\* C16: String() of a SELECT statement with a field and a table name is
\* SELECT n1, n2, ... FROM table, the bare column names in order, followed by
\* a WHERE part only when there are conditions and a DURING part only when
\* there is a date range; it never holds GROUP BY, ORDER BY, LIMIT, a function
\* name, DISTINCT or an alias; with no field or no table name it is empty.
C16_StringShape ==
    /\ (entry = "parseSelect" /\ first.kind # "nil") => FormatOf(src, first)
    /\ (entry = "String" /\ pc = "done") => FormatOf(src, stmt)

\* String was called on a parsed statement with an aggregate, an alias, a
\* condition, a date range, GROUP BY, ORDER BY and LIMIT.
C16_DecorationsDropped ==
    /\ entry = "parseSelect"
    /\ first.kind # "nil"
    /\ \E i \in DOMAIN first.Fields : first.Fields[i].ColumnAlias # <<>>
    /\ first.Where # <<>>
    /\ first.During # <<>>
    /\ first.GroupBy # <<>>
    /\ first.OrderBy # <<>>
    /\ first.WithRowCount
    /\ src = <<"S", "E", "L", "E", "C", "T", " ", "a", ",", " ", "b", " ", "F", "R", "O", "M",
               " ", "t", " ", "W", "H", "E", "R", "E", " ", "a", " ", "=", " ", "\"", "1",
               "\"", " ", "D", "U", "R", "I", "N", "G", " ", "T", "O", "D", "A", "Y">>

\* String was called on a statement without field and returned the empty
\* text.
C16_EmptyWithoutField ==
    /\ entry = "String"
    /\ pc = "done"
    /\ stmt.Fields = <<>>
    /\ stmt.TableName # <<>>
    /\ stmt.Where # <<>>
    /\ src = <<>>

\* The statement the keyword at the head of a statement text asks for.
KeywordKind(text) ==
    CASE text \in {stmtText1, stmtText5} -> "Select"
      [] text = stmtText2 -> "Describe"
      [] text = stmtText3 -> "Show"
      [] text = stmtText4 -> "CreateView"

\* The grammar a keyword token chooses.
GrammarOfKeyword ==
    [parseDescribe |-> {"DESC", "DESCRIBE"}, parseCreateView |-> {"CREATE"},
     parseSelect |-> {"SELECT"}, parseShow |-> {"SHOW"}]

\* The texts of two statements, the first one well formed, with the kind the
\* keyword of the second one asks for.
SecondStatements ==
    { [text |-> ParseText(<< <<s1, sep>> >>, <<s2, e>>), kind |-> KeywordKind(s2),
       complete |-> s2 \in WellFormedStatements] :
        s1 \in WellFormedStatements, sep \in Separators,
        s2 \in StatementTexts, e \in LastEndings }

\* C17: Parse chooses the grammar from the first token of each statement that
\* is not whitespace: DESC or DESCRIBE, CREATE, SELECT and SHOW give the
\* statement of their kind; any other first token, the end of an empty or
\* blank text included, gives the error of an unknown statement; the keyword
\* read is pushed back for the grammar chosen.
C17_Dispatch ==
    entry = "Parse" =>
        /\ (pc \in DOMAIN GrammarOfKeyword /\ view = NilStatement) =>
               (p.n = 1 /\ p.t \in GrammarOfKeyword[pc])
        /\ (pc = "done" /\ src \in {otherText1, otherText2, otherText3}) =>
               (err = Err("UNKWOWN_STATEMENT", <<>>) /\ statements = <<>>)
        /\ (pc = "done" /\ statements # <<>>) =>
               \E k \in {"Select", "Describe", "Show", "CreateView"} :
                   /\ statements[1].kind = k
                   /\ \E t \in StatementTexts :
                        KeywordKind(t) = k /\ StartsWith(src, t)
        /\ pc = "done" =>
               \A c \in SecondStatements :
                   src = c.text =>
                       /\ err.kind # "UNKWOWN_STATEMENT"
                       /\ c.complete => (Len(statements) = 2 /\ statements[2].kind = c.kind)

\* C17 for the first statement of a text only.
C17_FirstDispatch ==
    entry = "Parse" =>
        /\ (pc \in DOMAIN GrammarOfKeyword /\ view = NilStatement) =>
               (p.n = 1 /\ p.t \in GrammarOfKeyword[pc])
        /\ (pc = "done" /\ src \in {otherText1, otherText2, otherText3}) =>
               (err = Err("UNKWOWN_STATEMENT", <<>>) /\ statements = <<>>)
        /\ (pc = "done" /\ statements # <<>>) =>
               \E k \in {"Select", "Describe", "Show", "CreateView"} :
                   /\ statements[1].kind = k
                   /\ \E t \in StatementTexts :
                        KeywordKind(t) = k /\ StartsWith(src, t)
        /\ (pc = "done" /\ statements = <<>>
              /\ \E t \in StatementTexts : StartsWith(src, t)) =>
               err.kind # "UNKWOWN_STATEMENT"

\* Parse has returned from "SELECT a FROM t;SHOW TABLES" with the first
\* statement and the error of an unknown statement: the grammar of the second
\* statement was chosen on TABLES, the token that follows SHOW.
C17_SecondKeywordSkipped ==
    /\ entry = "Parse"
    /\ pc = "done"
    /\ src = ParseText(<< <<stmtText1, separator1>> >>, <<stmtText3, lastEnding1>>)
    /\ Len(statements) = 1
    /\ statements[1].kind = "Select"
    /\ err = Err("UNKWOWN_STATEMENT", <<>>)
    /\ p.l = <<"T", "A", "B", "L", "E", "S">>

\* C18: a SELECT whose field list is not followed by FROM fails with the
\* error of a missing source, and a SELECT whose FROM is followed by a token
\* that is not an identifier, the end of the text included, fails with the
\* error of an invalid source that names the literal of the token.
C18_Source ==
    (entry = "parseSelect" /\ pc = "done" /\ first.kind = "nil") =>
        \A f \in FieldListTexts :
            /\ \A n \in NoSourceTexts :
                   src = wSELECT \o f \o n =>
                       (err = Err("MISSING_SOURCE", <<>>) /\ stmt = NilStatement)
            /\ \A c \in BadSourceCases :
                   src = wSELECT \o f \o <<" ", "F", "R", "O", "M", " ">> \o c[1] \o c[2] =>
                       (err = Err("INVALID_SOURCE", c[1]) /\ stmt = NilStatement)

\* parseSelect has refused "SELECT a, b AS x FROM WHERE a = 1" with the
\* error of an invalid source that names WHERE.
C18_KeywordAsSource ==
    /\ entry = "parseSelect"
    /\ pc = "done"
    /\ src = wSELECT \o fieldListText2 \o <<" ", "F", "R", "O", "M", " ">>
               \o badSourceText3 \o wWHERE \o conditionText1
    /\ err = Err("INVALID_SOURCE", <<"W", "H", "E", "R", "E">>)

\* parseSelect has refused "SELECT a WHERE a = 1" with the error of a missing
\* source.
C18_NoSource ==
    /\ entry = "parseSelect"
    /\ pc = "done"
    /\ src = wSELECT \o fieldListText1 \o noSourceText2
    /\ err = Err("MISSING_SOURCE", <<>>)

\* The operators that take a list.
ListOperators == { <<"I", "N">>, <<"N", "O", "T", "_", "I", "N">> }

C19_OpenListRefused ==
    /\ entry = "parseSelect"
    /\ pc = "done"
    /\ src = BadListWhereText(<<>>, badListText4, <<>>)
    /\ p.t = "EOF"
    /\ err = Err("SYNTAX_NEAR", <<"[">>)

\* The names and aliases a field list declares, and the number of its fields.
DeclaredNames(f) ==
    CASE f = fieldListText1 -> { <<"a">> }
      [] f = fieldListText2 -> { <<"a">>, <<"b">>, <<"x">> }
      [] f = fieldListText3 -> { <<"x">>, <<"a">>, <<"b">>, <<"z">> }

DeclaredCount(f) ==
    CASE f = fieldListText1 -> 1 [] f = fieldListText2 -> 2 [] f = fieldListText3 -> 3

\* The reference r finds no field of the list f: a number out of 1..count, or
\* a name that is none of the names and aliases.
Unresolved(f, r) ==
    CASE r = refText3 -> FALSE
      [] r = refText4 -> DeclaredCount(f) < 2
      [] r = refText5 -> TRUE
      [] OTHER -> r \notin DeclaredNames(f)

\* The first reference of refs that finds no field of f, or 0.
FirstUnresolved(f, refs) ==
    IF \E i \in DOMAIN refs : Unresolved(f, refs[i])
    THEN CHOOSE i \in DOMAIN refs :
             Unresolved(f, refs[i]) /\ \A j \in 1..(i - 1) : ~Unresolved(f, refs[j])
    ELSE 0

\* The GROUP BY texts with a reference that finds no field, and the token of
\* the first such reference.
UnresolvedGroupBy ==
    { [text  |-> wSELECT \o c[1] \o wFROM \o wGROUPBY \o Joined(c[2], <<>>, wComma),
       token |-> c[2][FirstUnresolved(c[1], c[2])]] :
        c \in { d \in FieldListTexts \X SeqsUpTo(RefTexts, MaxRefs) :
                  FirstUnresolved(d[1], d[2]) # 0 } }

\* The same for the ORDER BY texts, whose references may have a direction.
UnresolvedOrderBy ==
    { [text  |-> wSELECT \o c[1] \o wFROM \o wORDERBY
                   \o Joined([i \in DOMAIN c[2] |-> c[2][i][1] \o c[2][i][2]], <<>>, wComma),
       token |-> c[2][FirstUnresolved(c[1], [i \in DOMAIN c[2] |-> c[2][i][1]])][1]] :
        c \in { d \in FieldListTexts \X SeqsUpTo(RefTexts \X DirectionTexts, MaxRefs) :
                  FirstUnresolved(d[1], [i \in DOMAIN d[2] |-> d[2][i][1]]) # 0 } }

\* C20: a reference of GROUP BY or ORDER BY that is no name or alias of a
\* field, or a number out of 1..number of fields, makes the parse fail with
\* an error that names the token of the reference; the error of GROUP BY is
\* the message of an unknown column inside the message of an invalid GROUP
\* BY, the error of ORDER BY the message of an unknown column.
C20_UnresolvedReference ==
    (entry = "parseSelect" /\ pc = "done" /\ first.kind = "nil") =>
        /\ \A c \in UnresolvedGroupBy :
               src = c.text =>
                   /\ err = [kind |-> "INVALID_GROUP_BY", arg |-> c.token,
                             inner |-> "UNKNOWN_COLUMN"]
                   /\ stmt = NilStatement
        /\ \A c \in UnresolvedOrderBy :
               src = c.text =>
                   /\ err = [kind |-> "UNKNOWN_COLUMN", arg |-> c.token, inner |-> ""]
                   /\ stmt = NilStatement

\* parseSelect has refused "SELECT a, b AS x FROM t GROUP BY x, zz", its
\* first reference found by its alias, with the error that names zz.
C20_UnknownGroupColumn ==
    /\ entry = "parseSelect"
    /\ pc = "done"
    /\ src = wSELECT \o fieldListText2 \o wFROM \o wGROUPBY \o refText2 \o wComma \o refText6
    /\ err.kind = "INVALID_GROUP_BY"
    /\ err.inner = "UNKNOWN_COLUMN"
    /\ err.arg = <<"z", "z">>

\* parseSelect has refused "SELECT a FROM t ORDER BY 1 DESC, 2" with the
\* error of an unknown column that names 2.
C20_OrderOutOfRange ==
    /\ entry = "parseSelect"
    /\ pc = "done"
    /\ src = wSELECT \o fieldListText1 \o wFROM \o wORDERBY \o refText3 \o directionText2
               \o wComma \o refText4
    /\ err = [kind |-> "UNKNOWN_COLUMN", arg |-> <<"2">>, inner |-> ""]

\* The field lists with a field that calls a function that is none, and the
\* error expected of each; the fields before it are well formed.
NoFunctionCases ==
    { [text |-> BadFieldText(c[1], c[2], c[3]),
       err  |-> [kind |-> "INVALID_FUNCTION", arg |-> CalledName(c[2]), inner |-> ""]] :
        c \in FieldLeads \X NoFunctionTexts \X {<<>>, wFROM} }

\* The field lists with a field that starts with a token that is no field.
NoFieldCases ==
    { [text |-> BadFieldText(c[1], c[2], c[3]),
       err  |-> [kind |-> "INVALID_FIELD", arg |-> FirstLiteral(c[2]), inner |-> ""]] :
        c \in FieldLeads \X NoFieldTexts \X {<<>>, wFROM} }

\* C21: in the field list, an identifier followed at once by a left
\* parenthesis that is none of AVG, COUNT, MAX, MIN, SUM, in any case, is
\* refused by the error of an invalid function that names the identifier; a
\* field that starts with a token that is not *, DISTINCT or an identifier is
\* refused by another error, that of an invalid field.
C21_UnknownFunction ==
    (entry = "parseSelect" /\ pc = "done" /\ first.kind = "nil") =>
        \A c \in NoFunctionCases \cup NoFieldCases :
            src = c.text => (err = c.err /\ stmt = NilStatement)

\* parseSelect has refused "SELECT c, Sumx(a) FROM t" with the error of an
\* invalid function that names Sumx.
C21_SumxRefused ==
    /\ entry = "parseSelect"
    /\ pc = "done"
    /\ src = BadFieldText(<<moreFieldText1>>, noFunctionText2, wFROM)
    /\ err = [kind |-> "INVALID_FUNCTION", arg |-> <<"S", "u", "m", "x">>, inner |-> ""]

\* parseSelect has refused "SELECT (a) FROM t" with the error of an invalid
\* field that names the left parenthesis.
C21_ParenthesisRefused ==
    /\ entry = "parseSelect"
    /\ pc = "done"
    /\ src = BadFieldText(<<>>, noFieldText3, wFROM)
    /\ err = [kind |-> "INVALID_FIELD", arg |-> <<"(">>, inner |-> ""]

\* The text between the quotes of patternText8 and patternText9.
Unquoted(pat) == SubSeq(pat, 2, Len(pat) - 1)

\* What follows LIKE or WITH that is a string, and that is an identifier.
StringPatterns == {patternText8, patternText9}

\* C22: in SHOW [FULL] TABLES, LIKE followed by a token that is not a string,
\* an identifier included, is refused by the error of syntax that names the
\* token; WITH takes an identifier or a string and keeps its text as the
\* column name; no ShowStatement returned has both a LIKE pattern and a WITH
\* column name.
C22_ShowClauses ==
    /\ (entry = "parseShow" /\ pc = "done") =>
           \A full \in BOOLEAN :
               /\ \A pat \in PatternTexts \ StringPatterns :
                      src = ShowClauseText(full, <<"L", "I", "K", "E">>, pat) =>
                          (err = Err("SYNTAX_NEAR", pat) /\ stmt = NilStatement)
               /\ src = ShowClauseText(full, <<"W", "I", "T", "H">>, patternText1) =>
                      /\ err = NoErr
                      /\ stmt.With = patternText1
                      /\ stmt.Full = full
               /\ \A pat \in StringPatterns :
                      src = ShowClauseText(full, <<"W", "I", "T", "H">>, pat) =>
                          /\ err = NoErr
                          /\ stmt.With = Unquoted(pat)
                          /\ stmt.Full = full
    /\ \A i \in DOMAIN Returned :
           Returned[i].kind = "Show" =>
               (Returned[i].Like = Pattern \/ Returned[i].With = <<>>)

\* C22 but for the text kept of a string after WITH.
C22_ShowClausesButString ==
    /\ (entry = "parseShow" /\ pc = "done") =>
           \A full \in BOOLEAN :
               /\ \A pat \in PatternTexts \ StringPatterns :
                      src = ShowClauseText(full, <<"L", "I", "K", "E">>, pat) =>
                          (err = Err("SYNTAX_NEAR", pat) /\ stmt = NilStatement)
               /\ src = ShowClauseText(full, <<"W", "I", "T", "H">>, patternText1) =>
                      /\ err = NoErr
                      /\ stmt.With = patternText1
                      /\ stmt.Full = full
               /\ \A pat \in StringPatterns :
                      src = ShowClauseText(full, <<"W", "I", "T", "H">>, pat) =>
                          /\ err = NoErr
                          /\ stmt.With = Tail(pat)
                          /\ stmt.Full = full
    /\ \A i \in DOMAIN Returned :
           Returned[i].kind = "Show" =>
               (Returned[i].Like = Pattern \/ Returned[i].With = <<>>)

\* parseShow has returned from SHOW FULL TABLES WITH "c" the column name c
\* followed by the closing quote.
C22_WithKeepsQuote ==
    /\ entry = "parseShow"
    /\ pc = "done"
    /\ src = ShowClauseText(TRUE, <<"W", "I", "T", "H">>, patternText8)
    /\ err = NoErr
    /\ stmt.With = <<"c", "\"">>
    /\ stmt.Like = Pattern

\* The DESCRIBE texts that are well formed, with what each one asks for.
DescribeCases ==
    { [text |-> DescribeText(c[1], c[2], c[3], c[4]),
       full |-> c[2], table |-> c[3], column |-> c[4]] :
        c \in DescribeWords \X BOOLEAN \X TableNames \X {<<>>, <<"c">>} }

\* The DESCRIBE texts with a token that is no identifier in place of the
\* table name, and the literal of that token.
BadTableCases ==
    { [text |-> DescribeText(c[1], c[2], c[3], c[4]), token |-> c[3]] :
        c \in { d \in DescribeWords \X BOOLEAN \X BadTableTexts \X {<<>>, <<"c">>} :
                  ~(d[3] = badTableText6 /\ d[4] # <<>>) } }

\* C23: DESC or DESCRIBE, FULL or not, a table and a column or not, up to
\* the end of the text, gives a DescribeStatement with Full true exactly when
\* FULL was written, the table as TableName, and as fields the column when
\* there is one, nothing otherwise; no DescribeStatement returned has more
\* than one field; a token in place of the table name that is no identifier
\* is refused by the error of an invalid source that names it.
C23_Describe ==
    /\ (entry = "parseDescribe" /\ pc = "done") =>
           /\ \A c \in DescribeCases :
                  src = c.text =>
                      /\ err = NoErr
                      /\ stmt.kind = "Describe"
                      /\ stmt.Full = c.full
                      /\ stmt.TableName = c.table
                      /\ ColumnNames(stmt.Fields) =
                             (IF c.column = <<>> THEN <<>> ELSE <<c.column>>)
           /\ \A c \in BadTableCases :
                  src = c.text =>
                      (err = Err("INVALID_SOURCE", c.token) /\ stmt = NilStatement)
    /\ \A i \in DOMAIN Returned :
           Returned[i].kind = "Describe" => Len(Returned[i].Fields) <= 1

\* parseDescribe has returned from "desc FULL Tab_1 c" the statement of the
\* column c of the table Tab_1, in full.
C23_FullTableColumn ==
    /\ entry = "parseDescribe"
    /\ pc = "done"
    /\ src = DescribeText(<<"d", "e", "s", "c">>, TRUE, <<"T", "a", "b", "_", "1">>, <<"c">>)
    /\ err = NoErr
    /\ stmt.Full
    /\ stmt.TableName = <<"T", "a", "b", "_", "1">>
    /\ Len(stmt.Fields) = 1

\* parseDescribe has refused "DESCRIBE FULL FROM c" with the error of an
\* invalid source that names FROM.
C23_KeywordAsTable ==
    /\ entry = "parseDescribe"
    /\ pc = "done"
    /\ src = DescribeText(<<"D", "E", "S", "C", "R", "I", "B", "E">>, TRUE, badTableText4, <<"c">>)
    /\ err = Err("INVALID_SOURCE", <<"F", "R", "O", "M">>)

\* C24: each of parseDescribe, parseCreateView, parseShow and parseSelect,
\* called on a text whose first token that is not whitespace is not the
\* keyword it expects, returns the error of an invalid method that names the
\* literal of that token, and no statement.
C24_InvalidMethod ==
    (pc = "done" /\ first.kind = "nil") =>
        \A c \in WrongMethodCalls :
            (entry = c.entry /\ src = c.src) =>
                /\ err = [kind |-> "INVALID_METHOD", arg |-> c.token, inner |-> ""]
                /\ stmt = NilStatement
                /\ statements = <<>>

\* parseCreateView has refused a text that starts, after a line break, with
\* describe.
C24_DescribeToCreateView ==
    /\ entry = "parseCreateView"
    /\ pc = "done"
    /\ src = <<"\n", "\t", "d", "e", "s", "c", "r", "i", "b", "e", " ", "t">>
    /\ err = [kind |-> "INVALID_METHOD",
              arg |-> <<"d", "e", "s", "c", "r", "i", "b", "e">>, inner |-> ""]
    /\ stmt = NilStatement

\* parseSelect has refused the empty text with the error that names the
\* empty literal.
C24_EmptyToSelect ==
    /\ entry = "parseSelect"
    /\ pc = "done"
    /\ src = <<>>
    /\ err = [kind |-> "INVALID_METHOD", arg |-> <<>>, inner |-> ""]

\* The call on the running Parser has returned, and the call on the other.
Finished == pc = "done" /\ ~(entry = "parseSelect" /\ err = NoErr /\ first.kind = "nil")

OtherFinished ==
    other.pc = "done"
        /\ ~(other.entry = "parseSelect" /\ other.err = NoErr /\ other.first.kind = "nil")

C25_Interleaved ==
    /\ other # NoInstance
    /\ entry = "parseSelect"
    /\ pc = "during"
    /\ other.pc = "orderBy"
    /\ p.pos < other.p.pos
    /\ stmt.OrderBy = <<>>
    /\ other.stmt.GroupBy # <<>>

\* C26: whitespace added between two tokens of a text changes neither the
\* statements nor the error the parser returns; an aggregate call with
\* whitespace between the name of the function and the left parenthesis is
\* parsed as the call without it.
C26_WhitespaceInsignificant ==
    (entry = "Parse" /\ Finished /\ OtherFinished) =>
        \A s \in SpacedPairs :
            (src = s[1] /\ other.src = s[2]) =>
                (err = other.err /\ statements = other.statements)

\* C26 for the pairs of texts that hold no call of a function.
C26_WhitespaceButCalls ==
    (entry = "Parse" /\ Finished /\ OtherFinished) =>
        \A s \in SpacedPairs \ { <<tightText1, spacedText1>>, <<tightText2, spacedText2>> } :
            (src = s[1] /\ other.src = s[2]) =>
                (err = other.err /\ statements = other.statements)

\* Parse has returned the statement of "SELECT COUNT(* x FROM t", and from
\* "SELECT COUNT (* x FROM t" the error of a missing source.
C26_SpaceBeforeParenthesis ==
    /\ entry = "Parse"
    /\ Finished
    /\ OtherFinished
    /\ src = tightText2
    /\ other.src = spacedText2
    /\ err = NoErr
    /\ Len(statements) = 1
    /\ statements[1].Fields[1].Method = <<"C", "O", "U", "N", "T">>
    /\ other.err = Err("MISSING_SOURCE", <<>>)
    /\ other.statements = <<>>

\* The tokens of a text in the order of the scanner, up to the first EOF:
\* Scan called again and again from the position pos.
RECURSIVE TokensFrom(_, _)
TokensFrom(text, pos) ==
    LET r == Scan(text, pos)
    IN  IF r.t = "EOF" THEN << <<r.t, r.l>> >>
        ELSE << <<r.t, r.l>> >> \o TokensFrom(text, r.pos)

\* The token of rank k of a text; past its end, the scanner returns EOF again.
TokenOf(text, k) ==
    LET tokens == TokensFrom(text, 1)
    IN  IF k <= Len(tokens) THEN tokens[k] ELSE tokens[Len(tokens)]

\* The calls of scan and unscan made so far follow the discipline: the first
\* call is a scan, which returns the first token; no unscan follows an
\* unscan; the scan after an unscan returns the token of the scan before it;
\* any other scan returns the token that follows, in the order of the
\* scanner, the one the last scan returned.
Disciplined(log) ==
    /\ log # <<>> => log[1] = 1
    /\ \A i \in 2..Len(log) :
           /\ log[i] = 0 => log[i - 1] # 0
           /\ (log[i] # 0 /\ log[i - 1] = 0) => (i > 2 /\ log[i] = log[i - 2])
           /\ (log[i] # 0 /\ log[i - 1] # 0) => log[i] = log[i - 1] + 1

\* C27: along every execution of the parser the buffer holds at most one
\* token; unscan is not called twice with no scan in between, nor before the
\* first scan; a scan after an unscan returns the token the scan before it
\* returned; any other scan returns the next token of the scanner, none
\* skipped and none returned twice.
C27_Pushback ==
    entry \notin {"String", "none"} =>
        /\ p.n \in {0, 1}
        /\ Disciplined(p.log)
        /\ p.k > 0 => (<<p.t, p.l>> = TokenOf(src, p.k))
        /\ p.n = 1 => (p.log # <<>> /\ p.log[Len(p.log)] = 0)

\* parseSelect has read a text to its end, with tokens pushed back and read
\* again, the last call a scan that returned EOF.
C27_PushedBackAndReadAgain ==
    /\ entry = "parseSelect"
    /\ first.kind = "nil"
    /\ pc = "done"
    /\ err = NoErr
    /\ p.t = "EOF"
    /\ p.n = 0
    /\ Cardinality({i \in DOMAIN p.log : p.log[i] = 0}) >= 5
    /\ \E i \in 3..Len(p.log) : p.log[i - 1] = 0 /\ p.log[i] = p.log[i - 2]

\* No two tokens that follow each other in the order of the scanner are both
\* WHITE_SPACE.
MaximalWhitespace(text) ==
    LET tokens == TokensFrom(text, 1)
    IN  \A i \in 1..(Len(tokens) - 1) :
            ~(tokens[i][1] = "WHITE_SPACE" /\ tokens[i + 1][1] = "WHITE_SPACE")

\* C28: in every state of the parser, the buffer empty or holding a token
\* pushed back, whitespace or not, scanIgnoreWhitespace returns a token that
\* is not WHITE_SPACE; the scanner returns a run of whitespace as one token,
\* so that no two WHITE_SPACE tokens follow each other.
C28_NoWhitespace ==
    entry \notin {"String", "none"} =>
        /\ ~p.w
        /\ scanIgnoreWhitespace(src, p).t # "WHITE_SPACE"
        /\ p.t # "WHITE_SPACE" =>
               scanIgnoreWhitespace(src, unscan(p)).t = p.t
        /\ (p.k > 0 /\ p.t = "WHITE_SPACE") =>
               scanIgnoreWhitespace(src, unscan(p)).t
                   = TokenOf(src, p.k + 1)[1]
        /\ MaximalWhitespace(src)

\* A scan returned a whitespace of several runes, it was pushed back, and the
\* scanIgnoreWhitespace that followed read that whitespace again and returned
\* the token after it, which is no whitespace.
C28_WhitespacePushedBack ==
    /\ entry \notin {"String", "none", "Scan"}
    /\ ~p.w
    /\ \E i \in 1..(Len(p.log) - 3) :
           /\ p.log[i] # 0
           /\ TokenOf(src, p.log[i])[1] = "WHITE_SPACE"
           /\ Len(TokenOf(src, p.log[i])[2]) > 1
           /\ p.log[i + 1] = 0
           /\ p.log[i + 2] = p.log[i]
           /\ p.log[i + 3] = p.log[i] + 1
           /\ TokenOf(src, p.log[i + 3])[1] \notin {"WHITE_SPACE", "EOF"}

\* A step in which scanQueryEnding fails: the end of parseSelect, or
\* parseDescribe returning a syntax error, which it does at its end only.
EndingFails ==
    /\ pc \in {"ending", "parseDescribe"}
    /\ pc' = "done"
    /\ err'.kind = "SYNTAX_NEAR"

\* C29: when the check of the end of the query fails on a token, that token
\* is pushed back: the next scan of the same parser returns it again, and
\* not the token after it.
C29_EndingPushedBack ==
    [][EndingFails =>
          /\ p'.n = 1
          /\ scan(src', p').k = p'.k
          /\ scan(src', p').l = err'.arg]_vars

\* parseDescribe has failed on a name in place of the end of the query, with
\* a space and another name after it: the buffer is not marked as pushed back
\* and the next scans return the space and the other name.
C29_NextScanGoesOn ==
    /\ entry = "parseDescribe"
    /\ pc = "done"
    /\ err = Err("SYNTAX_NEAR", p.l)
    /\ p.t = "IDENTIFIER"
    /\ p.n = 0
    /\ scan(src, p).k = p.k + 1
    /\ scan(src, scan(src, p)).t = "IDENTIFIER"
    /\ scan(src, scan(src, p)).l # p.l

\* The offending token of an invalid LIMIT, the last token read, comes after
\* a comma: it stands in place of the second number.
AfterComma ==
    \E j \in {p.k - 1, p.k - 2} : j > 0 /\ TokenOf(src, j)[1] = "COMMA"

\* C30: every error of an invalid LIMIT carries the literal of the offending
\* token, in place of the first number and in place of the second, which is
\* the empty string at the end of the text.
C30_LimitLiteral ==
    err.kind = "INVALID_LIMIT" => err.arg = p.l

\* The same of the errors on the token in place of the first number only.
C30_FirstNumberLiteral ==
    (err.kind = "INVALID_LIMIT" /\ ~AfterComma) => err.arg = p.l

\* LIMIT 5, x is refused with the message of an invalid LIMIT filled with
\* the row count of the statement, the int 0 given to the verb %s, and not
\* with x.
C30_RowCountInMessage ==
    /\ entry \in {"Parse", "parseSelect"}
    /\ pc = "done"
    /\ AfterComma
    /\ p.l = <<"x">>
    /\ err = Err("INVALID_LIMIT", BadVerbZero)

\* LIMIT x and LIMIT at the end of the text are refused with the literal of
\* the offending token, x and the empty string.
C30_FirstNumberRefused ==
    /\ pc = "done"
    /\ ~AfterComma
    /\ err.kind = "INVALID_LIMIT"
    /\ err.arg = p.l
    /\ p.t \in {"IDENTIFIER", "EOF"}

\* The call of a position k after the fields of lead is accepted, and the
\* statement returned holds the fields of lead and one more, which has the
\* column of the field k and the method SUM.
PositionAccepted(c) ==
    /\ err = NoErr
    /\ Len(stmt.Fields) = Len(c.lead) + 1
    /\ stmt.Fields[Len(c.lead) + 1] =
           [stmt.Fields[c.k] EXCEPT !.Method = <<"S", "U", "M">>, !.Distinct = FALSE]

\* The statement of a call of PositionCalls that parseSelect has returned.
PositionParsed(c) ==
    entry = "parseSelect" /\ pc = "done" /\ first.kind = "nil" /\ src = c.text

\* C31: an integer k given to an aggregate call in the field i is resolved
\* against the fields before it: the call is accepted if and only if
\* 1 <= k <= i - 1, and the field then has the column of the field k.
C31_Position ==
    \A c \in PositionCalls :
        (PositionParsed(c) /\ c.close = wClosed) =>
            IF 1 <= c.k /\ c.k <= Len(c.lead)
            THEN PositionAccepted(c)
            ELSE err # NoErr

\* The same of the calls with a name in place of the right parenthesis, and
\* the error of the positions out of range, closed or not.
C31_PositionUnclosed ==
    \A c \in PositionCalls :
        PositionParsed(c) =>
            IF 1 <= c.k /\ c.k <= Len(c.lead)
            THEN c.close = wOpen => PositionAccepted(c)
            ELSE err = Err("INVALID_METHOD", <<Positions[c.k + 1]>>)

\* parseSelect has refused "SELECT c, b AS x, SUM(2) FROM t", the position of
\* a field before the call, with the error of an invalid function that names 2.
C31_ClosedPositionRefused ==
    /\ entry = "parseSelect"
    /\ pc = "done"
    /\ src = PositionText(<<moreFieldText1, aliasedFieldText>>, "2", wClosed)
    /\ err = Err("INVALID_FUNCTION", <<"2">>)

\* parseSelect has accepted "SELECT c, b AS x, SUM(2 z FROM t": the third
\* field has the column b, the alias x and the method SUM.
C31_OpenPositionAccepted ==
    /\ entry = "parseSelect"
    /\ pc = "done"
    /\ src = PositionText(<<moreFieldText1, aliasedFieldText>>, "2", wOpen)
    /\ err = NoErr
    /\ stmt.Fields[3] = [ColumnName |-> <<"b">>, ColumnAlias |-> <<"x">>,
                         Method |-> <<"S", "U", "M">>, Distinct |-> FALSE]

\* The statement of a call of AsteriskCalls that parseSelect has returned.
AsteriskParsed(c) ==
    entry = "parseSelect" /\ pc = "done" /\ first.kind = "nil" /\ src = c.text

\* The call is accepted: one field, of column name * and of method COUNT.
CountAccepted ==
    /\ err = NoErr
    /\ stmt.Fields = << [ColumnName |-> <<"*">>, ColumnAlias |-> <<>>,
                         Method |-> <<"C", "O", "U", "N", "T">>, Distinct |-> FALSE] >>

\* C32: in an aggregate call the argument * is accepted with the function
\* COUNT only, in any case of letters, and gives a field of column name * and
\* of method COUNT; with AVG, MAX, MIN or SUM it is an error that names *.
C32_Asterisk ==
    \A c \in AsteriskCalls :
        (AsteriskParsed(c) /\ c.close = wClosed) =>
            IF c.name \in CountNames
            THEN CountAccepted
            ELSE err = Err("INVALID_METHOD", <<"*">>)

\* The same of the calls with a name in place of the right parenthesis, and
\* the error of the other functions, closed or not.
C32_AsteriskUnclosed ==
    \A c \in AsteriskCalls :
        AsteriskParsed(c) =>
            IF c.name \in CountNames
            THEN c.close = wOpen => CountAccepted
            ELSE err = Err("INVALID_METHOD", <<"*">>)

\* parseSelect has refused "SELECT count(*) FROM t" with the error of an
\* invalid function that names *.
C32_CountClosedRefused ==
    /\ entry = "parseSelect"
    /\ pc = "done"
    /\ src = AsteriskText(<<"c", "o", "u", "n", "t">>, wClosed)
    /\ err = Err("INVALID_FUNCTION", <<"*">>)

\* parseSelect has refused "SELECT Max(*) FROM t" with the error of an
\* invalid method that names *.
C32_MaxRefused ==
    /\ entry = "parseSelect"
    /\ pc = "done"
    /\ src = AsteriskText(<<"M", "a", "x">>, wClosed)
    /\ err = Err("INVALID_METHOD", <<"*">>)

\* parseCreateView has returned from the text of a list of BadViewLists.
ViewListParsed(l) ==
    entry = "parseCreateView" /\ pc = "done" /\ src = ViewListText(l)

\* C33: in the list of columns of CREATE VIEW, an empty list, an empty entry
\* (a comma with no name after it, as before the right parenthesis), an entry
\* that is no name, and two names with no comma between them are all refused
\* with an error.
C33_BadViewLists ==
    \A l \in BadViewLists :
        ViewListParsed(l) => (err # NoErr /\ stmt = NilStatement)

\* The same of the entries that are no name, refused by the error of an
\* invalid field that names the token (a string by the literal the scanner
\* gives it, its closing quote kept), of two names with no comma, refused by
\* the error of syntax that names the second, and of a comma with no name
\* before it.
C33_BadEntries ==
    /\ ViewListParsed(noNameText1) => err = Err("INVALID_FIELD", <<"1">>)
    /\ ViewListParsed(noNameText2) => err = Err("INVALID_FIELD", <<"d", "'">>)
    /\ ViewListParsed(noNameText3) => err = Err("INVALID_FIELD", <<"*">>)
    /\ ViewListParsed(noCommaText1) => err = Err("SYNTAX_NEAR", <<"d">>)
    /\ ViewListParsed(noCommaText2) => err = Err("SYNTAX_NEAR", <<"e">>)
    /\ ViewListParsed(emptyEntryText3) => err = Err("INVALID_FIELD", <<",">>)
    /\ ViewListParsed(emptyEntryText4) => err = Err("INVALID_FIELD", <<",">>)

\* parseCreateView has accepted "CREATE VIEW v () AS SELECT a FROM t", with
\* no column, and "CREATE VIEW v (c,) AS SELECT a FROM t", with the column c.
C33_EmptyListAccepted ==
    /\ entry = "parseCreateView"
    /\ pc = "done"
    /\ err = NoErr
    /\ stmt.kind = "CreateView"
    /\ stmt.View.kind = "Select"
    /\ \/ src = ViewListText(emptyListText) /\ stmt.Fields = <<>>
       \/ src = ViewListText(emptyEntryText1) /\ stmt.Fields = << Field(<<"c">>) >>

\* parseCreateView has accepted "CREATE VIEW v (c, d, ) AS SELECT a FROM t"
\* with the columns c and d.
C33_TrailingCommaAccepted ==
    /\ ViewListParsed(emptyEntryText2)
    /\ err = NoErr
    /\ stmt.Fields = << Field(<<"c">>), Field(<<"d">>) >>

\* A text without its spaces.
RECURSIVE Squeezed(_)
Squeezed(text) ==
    IF text = <<>> THEN <<>>
    ELSE (IF text[1] = " " THEN <<>> ELSE <<text[1]>>) \o Squeezed(Tail(text))

\* A value as it is to be written: as it is when flagged literal, else
\* between double quotes, a double quote and a backslash in it escaped.
RECURSIVE Escaped(_)
Escaped(v) ==
    IF v = <<>> THEN <<>>
    ELSE (IF v[1] \in {"\"", "\\"} THEN <<"\\", v[1]>> ELSE <<v[1]>>) \o Escaped(Tail(v))

ValueText(v, literal) ==
    IF literal THEN v ELSE <<"\"">> \o Escaped(v) \o <<"\"">>

\* The values v1, v2, ... written v1,v2,...
RECURSIVE ValuesText(_, _)
ValuesText(values, literal) ==
    IF Len(values) = 1 THEN ValueText(values[1], literal)
    ELSE ValueText(values[1], literal) \o <<",">> \o ValuesText(Tail(values), literal)

\* A condition: its column, its operator, its value, or its values between
\* square brackets.
ConditionText(c) ==
    c.ColumnName \o c.Operator
        \o (IF Len(c.Value) > 1
            THEN <<"[">> \o ValuesText(c.Value, c.IsValueLiteral) \o <<"]">>
            ELSE ValueText(c.Value[1], c.IsValueLiteral))

\* The conditions c1, c2, ... written c1 AND c2 AND ...
RECURSIVE ConditionsText(_)
ConditionsText(where) ==
    IF Len(where) = 1 THEN ConditionText(where[1])
    ELSE ConditionText(where[1]) \o <<"A", "N", "D">> \o ConditionsText(Tail(where))

\* What String is to write after the table name, spaces left out.
ClausesOf(s) ==
    (IF s.Where = <<>> THEN <<>>
     ELSE <<"W", "H", "E", "R", "E">> \o ConditionsText(s.Where))
    \o (IF s.During = <<>> THEN <<>>
        ELSE <<"D", "U", "R", "I", "N", "G">> \o DatesText(s.During))

\* The text is that of s up to its table name and then, but for the spaces
\* of both, what ClausesOf gives.
ClausesWritten(text, s) ==
    (s.Fields # <<>> /\ s.TableName # <<>>) =>
        LET head == <<"S", "E", "L", "E", "C", "T", " ">> \o CommaList(ColumnNames(s.Fields))
                        \o <<" ", "F", "R", "O", "M", " ">> \o s.TableName
        IN  /\ StartsWith(text, head)
            /\ Squeezed(SubSeq(text, Len(head) + 1, Len(text))) = Squeezed(ClausesOf(s))

\* C34: String() writes the conditions in their order, joined by AND, each
\* as its column, its operator and its value; a value is written as it is
\* when the condition is flagged literal and as a double-quoted, escaped
\* string otherwise; several values are written as a list between square
\* brackets, separated by commas, every one by the same rule; DURING is
\* written d1,d2 of two dates and as the one literal otherwise.
C34_Conditions ==
    /\ (entry = "parseSelect" /\ first.kind # "nil") => ClausesWritten(src, first)
    /\ (entry = "String" /\ pc = "done") => ClausesWritten(src, stmt)

\* String was called on a statement of two conditions flagged literal, the
\* second of two values, and of two dates.
C34_ListAndDates ==
    /\ entry = "String"
    /\ pc = "done"
    /\ stmt.Where = <<builtCondition1, builtCondition3>>
    /\ Len(stmt.During) = 2
    /\ EndsWith(src, <<" ", "W", "H", "E", "R", "E", " ", "a", " ", "=", " ", "1", " ", "A",
                       "N", "D", " ", "c", " ", "I", "N", " ", "[", " ", "1", " ", ",", " ",
                       "2", " ", "]", " ", "D", "U", "R", "I", "N", "G", " ">>
                         \o stmt.During[1] \o <<",">> \o stmt.During[2])

\* String was called on a statement of a condition of two strings, the second
\* with a double quote in it.
C34_QuotedList ==
    /\ entry = "String"
    /\ pc = "done"
    /\ stmt.Where = <<builtCondition2>>
    /\ stmt.During = <<>>
    /\ EndsWith(src, <<" ", "W", "H", "E", "R", "E", " ", "b", " ", "I", "N", " ", "[", " ",
                       "\"", "x", "\"", " ", ",", " ", "\"", "y", "\\", "\"", "\"", " ", "]">>)

\* The token Scan is to return of a text of OperatorTexts whose first rune is
\* an operator rune, and the number of runes it is to consume.
OperatorToken(text) ==
    LET two == Len(text) > 1 /\ text[2] = "="
    IN  CASE text[1] = "!" /\ two -> <<"DIFFERENT", <<"!", "=">>, 2>>
          [] text[1] = ">" /\ two -> <<"SUPERIOR_OR_EQUAL", <<">", "=">>, 2>>
          [] text[1] = "<" /\ two -> <<"INFERIOR_OR_EQUAL", <<"<", "=">>, 2>>
          [] text[1] = "!" -> <<"ILLEGAL", <<"!">>, 1>>
          [] text[1] = ">" -> <<"SUPERIOR", <<">">>, 1>>
          [] text[1] = "<" -> <<"INFERIOR", <<"<">>, 1>>
          [] text[1] = "=" -> <<"EQUAL", <<"=">>, 1>>

\* A call of Scan on a text of OperatorTexts, the reader before an operator
\* rune.
ScansOperator ==
    /\ entry = "Scan"
    /\ pc = "Scan"
    /\ src \in OperatorTexts
    /\ p.pos <= Len(src)
    /\ src[p.pos] \in {"!", ">", "<", "="}

\* C35: !=, >= and <= are each returned as one token of two runes; > or <
\* followed by another rune, or by the end of the text, is returned as the
\* token of one rune and the rune read ahead is pushed back, the next Scan
\* starting at it; ! not followed by = is returned as ILLEGAL with the
\* literal ! and the rune after it is not lost either.
C35_OperatorLookahead ==
    [][ScansOperator =>
          LET tk == OperatorToken(SubSeq(src, p.pos, Len(src)))
          IN  /\ p'.t = tk[1]
              /\ p'.l = tk[2]
              /\ p'.pos = p.pos + tk[3]]_vars

\* Scan has returned > from the text ">a=", then the identifier a it had
\* read ahead, then =.
C35_RuneReadAheadKept ==
    /\ entry = "Scan"
    /\ src = <<">", "a", "=">>
    /\ p.k = 3
    /\ p.t = "EQUAL"
    /\ TokenOf(src, 1) = <<"SUPERIOR", <<">">> >>
    /\ TokenOf(src, 2) = <<"IDENTIFIER", <<"a">> >>

\* Scan has returned ILLEGAL with the literal ! from the text "!<=", then <=.
C35_IllegalThenOperator ==
    /\ entry = "Scan"
    /\ src = <<"!", "<", "=">>
    /\ p.k = 2
    /\ p.t = "INFERIOR_OR_EQUAL"
    /\ p.l = <<"<", "=">>
    /\ TokenOf(src, 1) = <<"ILLEGAL", <<"!">> >>

\* The texts between the quotes of the strings, and the value literals.
ElementValues == << <<"x">>, <<"y">>, <<"a">>, <<"1", ".", "5">> >>

\* The literals of the elements as the scanner returns them, the closing
\* quote of a string kept.
ElementLiterals == << <<"x", "'">>, <<"y", "\"">>, <<"a">>, <<"1", ".", "5">> >>

\* The elements of the list are of one kind, that of the first.
OneKind(c) == \A i \in DOMAIN c.elems : (c.elems[i] \in StringElements) <=> (c.elems[1] \in StringElements)

\* The kind of the list, fixed by its first element.
KindOf(c) == IF c.elems[1] \in StringElements THEN "STRING_LIST" ELSE "VALUE_LITERAL_LIST"

\* scanList has returned from the text of a call of ListCalls.
ListScanned(c) == entry = "scanList" /\ pc = "done" /\ src = c.text

\* C36: a list of one or more strings closed by ] is tagged STRING_LIST and a
\* list of one or more value literals closed by ] VALUE_LITERAL_LIST, with
\* the elements in the order of the text, also when the last element is
\* followed at once by ]; the kind is that of the first element, and the
\* result is ILLEGAL as soon as an element of the other kind is met, or when
\* the text ends before ].
C36_ListKinds ==
    \A c \in ListCalls :
        ListScanned(c) =>
            IF OneKind(c) /\ c.close # <<>>
            THEN /\ stmt.Token = KindOf(c)
                 /\ stmt.Values = [i \in DOMAIN c.elems |-> ElementValues[c.elems[i]]]
            ELSE stmt.Token = "ILLEGAL"

\* The same but for the lists of value literals whose last element is
\* followed at once by ], and with the strings as the scanner returns them.
C36_ListKindsButClosedAtOnce ==
    \A c \in ListCalls :
        ListScanned(c) =>
            IF OneKind(c) /\ c.close # <<>>
            THEN (KindOf(c) = "STRING_LIST" \/ c.close = <<" ", "]">>) =>
                     /\ stmt.Token = KindOf(c)
                     /\ stmt.Values = [i \in DOMAIN c.elems |-> ElementLiterals[c.elems[i]]]
            ELSE stmt.Token = "ILLEGAL"

\* scanList has returned ILLEGAL from the text "[a,1.5]", with its two
\* elements, the reader at the end of the text.
C36_ClosedAtOnceIllegal ==
    /\ entry = "scanList"
    /\ pc = "done"
    /\ src = <<"[", "a", ",", "1", ".", "5", "]">>
    /\ stmt.Token = "ILLEGAL"
    /\ stmt.Values = << <<"a">>, <<"1", ".", "5">> >>
    /\ p.pos = Len(src) + 1

\* scanList has returned VALUE_LITERAL_LIST from the text "[a,1.5 ]".
C36_ClosedAfterSpace ==
    /\ entry = "scanList"
    /\ pc = "done"
    /\ src = <<"[", "a", ",", "1", ".", "5", " ", "]">>
    /\ stmt.Token = "VALUE_LITERAL_LIST"
    /\ stmt.Values = << <<"a">>, <<"1", ".", "5">> >>

\* Scan was called n times on the text of a call of WordCalls.
WordScanned(c, n) == entry = "Scan" /\ src = c.text /\ p.k = n

\* C37: a run of letters, digits and underscores that starts with a letter,
\* as long as it can be, is scanned as one token: the reserved word its text
\* in upper case names, whatever the case it is written in, or IDENTIFIER;
\* the literal is the text as written, and the rune that ends the run is not
\* consumed.
C37_Words ==
    \A c \in WordCalls :
        /\ WordScanned(c, 1) =>
              /\ p.t = c.kind
              /\ p.l = c.word
              /\ p.pos = Len(c.word) + 1
        /\ WordScanned(c, 2) =>
              /\ p.t = c.next
              /\ p.l = c.literal
              /\ p.pos = Len(c.word) + Len(c.literal) + 1

\* Scan has returned STARTS_WITH_IGNORE_CASE with the literal as written from
\* the text "sTaRtS_WiTh_iGnOrE_CaSe(b", and then the left parenthesis.
C37_MixedCaseKeyword ==
    /\ entry = "Scan"
    /\ p.k = 2
    /\ p.t = "LEFT_PARENTHESIS"
    /\ p.pos = Len(src)
    /\ Len(src) = 25
    /\ TokenOf(src, 1) = <<"STARTS_WITH_IGNORE_CASE", SubSeq(src, 1, 23)>>
    /\ SubSeq(src, 1, 6) = <<"s", "T", "a", "R", "t", "S">>

\* Scan has returned IDENTIFIER from the text "Selects,b", and then the comma.
C37_LongerThanKeyword ==
    /\ entry = "Scan"
    /\ src = <<"S", "e", "l", "e", "c", "t", "s", ",", "b">>
    /\ p.k = 2
    /\ p.t = "COMMA"
    /\ TokenOf(src, 1) = <<"IDENTIFIER", <<"S", "e", "l", "e", "c", "t", "s">> >>

\* Scan called at the reader position pos of the text consumes a rune at
\* least, unless it returns EOF; past the end of the text it returns EOF and
\* consumes nothing.
ScanAdvances(text, pos) ==
    /\ Scan(text, pos).t # "EOF" => Scan(text, pos).pos > pos
    /\ pos > Len(text) => (Scan(text, pos).t = "EOF" /\ Scan(text, pos).pos = pos)

\* The call is in its second part: parseSelect on the text String made of
\* the statement it returned first.
Phase == IF first.kind # "nil" THEN 1 ELSE 0

\* The calls of scan and unscan made so far, or for the methods that make
\* none, whether the method has returned.
Done == IF entry \in {"String", "scanList"} THEN (IF pc = "done" THEN 1 ELSE 0)
        ELSE Len(p.log)

\* The steps of the methods: each is the only condition of one action, which
\* can then be taken whatever the text holds.
Steps ==
    {"Scan", "scanList", "String", "Parse", "parsed", "parseDescribe",
     "parseShow", "parseCreateView", "viewColumn", "viewAs", "parseSelect",
     "field", "from", "where", "condition", "during", "range", "group",
     "groupBy", "order", "orderBy", "limit", "ending"}

\* How many tokens the text holds, EOF counted once.
Tokens == Len(TokensFrom(src, 1))

C38_ColumnsEndAtEOF ==
    /\ entry = "parseCreateView"
    /\ src = truncatedView2
    /\ pc = "done"
    /\ err = Err("INVALID_FIELD", <<>>)
    /\ p.t = "EOF"

\* The positions of the fields declared that have the reference as name or
\* as alias.
Matching(c) ==
    { i \in DOMAIN c.fields :
        c.fields[i][1] = c.ref.text \/ c.fields[i][2] = c.ref.text }

\* The position the reference of the case c stands for, 0 if it stands for
\* none: its number if it is one, from 1 to the number of fields, else the
\* smallest position of a field of that name or alias.
PositionOf(c) ==
    IF c.ref.number # 0
    THEN (IF c.ref.number <= Len(c.fields) THEN c.ref.number ELSE 0)
    ELSE IF Matching(c) = {} THEN 0
    ELSE CHOOSE i \in Matching(c) : \A j \in Matching(c) : i <= j

\* The columns of the clause of the case c in the statement s.
ClauseOf(c, s) == IF c.clause = "GroupBy" THEN s.GroupBy ELSE s.OrderBy

\* C39: a reference of GROUP BY or ORDER BY that parses as an integer is
\* resolved by position and never by name; any other reference is resolved to
\* the smallest position, counted from 1, of a field that has it as column
\* name or as alias: of several fields that match, the first declared wins.
C39_Resolution ==
    (entry = "parseSelect" /\ pc = "done" /\ first.kind = "nil") =>
        \A c \in SharedCases :
            src = c.text =>
                IF PositionOf(c) = 0
                THEN err.kind \in {"UNKNOWN_COLUMN", "INVALID_GROUP_BY"}
                ELSE /\ err = NoErr
                     /\ Len(ClauseOf(c, stmt)) = 1
                     /\ ClauseOf(c, stmt)[1].Position = PositionOf(c)
                     /\ ClauseOf(c, stmt)[1].ColumnName = c.fields[PositionOf(c)][1]
                     /\ ClauseOf(c, stmt)[1].ColumnAlias = c.fields[PositionOf(c)][2]

\* parseSelect has returned "SELECT a, b AS a, a FROM t GROUP BY a", three
\* fields matching the reference, grouped by the first.
C39_FirstOfThree ==
    /\ entry = "parseSelect"
    /\ pc = "done"
    /\ first.kind = "nil"
    /\ src = wSELECT \o sharedText1 \o wFROM \o wGROUPBY \o <<"a">>
    /\ err = NoErr
    /\ Len(stmt.Fields) = 3
    /\ stmt.GroupBy[1].Position = 1

\* parseSelect has returned "SELECT a AS b, b FROM t ORDER BY 02", ordered by
\* its second field.
C39_ByNumber ==
    /\ entry = "parseSelect"
    /\ pc = "done"
    /\ first.kind = "nil"
    /\ src = wSELECT \o sharedText2 \o wFROM \o wORDERBY \o <<"0", "2">>
    /\ err = NoErr
    /\ stmt.OrderBy[1].Position = 2

\* parseCreateView has just returned the statement of the text to its caller.
ViewReturned ==
    \/ entry = "parseCreateView" /\ pc = "done"
    \/ entry = "Parse" /\ pc = "parsed" /\ statements = <<>>

C40_ViewThenSelect ==
    /\ entry = "Parse"
    /\ pc = "parsed"
    /\ statements = <<>>
    /\ src = stmtText4 \o <<";", " ", "S", "E", "L", "E", "C", "T", " ", "b", " ", "F", "R", "O",
                            "M", " ", "t">>
    /\ stmt.kind = "CreateView"
    /\ p.t = "SEMICOLON"

====
